---------------------------- MODULE Spec2Model ----------------------------
(***************************************************************************)
(* OptME: optimistic concurrent execution engine (sslab-execution/optme).  *)
(*                                                                         *)
(* Part 1 models the scheduling half: the address-based conflict graph     *)
(* (construct -> hierarchcial_sort -> reorder) and ScheduledInfo           *)
(* (_schedule_sorted_txs, _schedule_aborted_txs).                          *)
(* Part 2 models ConcurrencyLevelManager: prepare_execution, _execute,     *)
(* _simulate, _re_execute, _concurrent_commit and                          *)
(* _validate_optimistic_assumption, with the rayon workers interleaved.    *)
(***************************************************************************)
EXTENDS Integers, Sequences, FiniteSets, TLC

(***************************************************************************)
(* Bounds of the model.                                                    *)
(***************************************************************************)
NumKeys == 2
MaxSimTxs == 3
NumVals == 3
MaxTxs == 2
MaxBatches == 3
MaxLevel == 2
MaxValidated == 3
MaxAborted == 3
MaxCerts == 2
MaxCertBatches == 2
MaxSerialized == 2
NumDigests == 2
MaxNezhaAborted == 4

Keys == 1..NumKeys
Vals == 0..(NumVals - 1)

(***************************************************************************)
(* Generic helpers.                                                        *)
(***************************************************************************)
Max(S) == CHOOSE x \in S : \A y \in S : y <= x
Min(S) == CHOOSE x \in S : \A y \in S : x <= y

Range(s) == {s[i] : i \in DOMAIN s}

RECURSIVE SortedSeq(_)
SortedSeq(S) == IF S = {} THEN <<>> ELSE <<Min(S)>> \o SortedSeq(S \ {Min(S)})

RECURSIVE Flatten(_)
Flatten(ss) == IF ss = <<>> THEN <<>> ELSE Head(ss) \o Flatten(Tail(ss))

SelectIds(s, P(_)) == SelectSeq(s, LAMBDA tx : P(tx.id))

Ids(s) == {s[i].id : i \in DOMAIN s}

TxOf(s, id) == s[CHOOSE i \in DOMAIN s : s[i].id = id]

Perms(S) == {p \in [1..Cardinality(S) -> S] : \A x \in S : \E i \in DOMAIN p : p[i] = x}

(***************************************************************************)
(* SimulatedTransaction (types.rs): the id, the read and write key sets    *)
(* extracted from the RwSet, the effects and the raw transaction.          *)
(***************************************************************************)
SimulatedTransaction(id, reads, writes, effect, raw) ==
    [id |-> id, reads |-> reads, writes |-> writes, effect |-> effect, raw_tx |-> raw]

(***************************************************************************)
(* AddressBasedConflictGraph::construct / par_construct.                   *)
(* One read unit and one write unit per touched key; a transaction that    *)
(* reads and writes a key (an updater) is aborted before it enters the     *)
(* graph when the key already has an updater (first-updater-wins).         *)
(***************************************************************************)
EmptyACG == [tx_list |-> <<>>, aborted_txs |-> <<>>, updaters |-> {},
             sequence |-> <<>>, aborted |-> {}]

\* Every updater enters the graph.
updater_never_exists(acg, tx) == FALSE

_check_updater_already_exist_in_same_address(acg, tx) ==
    (tx.reads \cap tx.writes) \cap acg.updaters # {}

RECURSIVE _add_units(_, _)
_add_units(acg, rest) ==
    IF rest = <<>> THEN acg
    ELSE LET tx == Head(rest) IN
         IF _check_updater_already_exist_in_same_address(acg, tx)
         THEN _add_units([acg EXCEPT !.aborted_txs = Append(@, tx)], Tail(rest))
         ELSE _add_units([acg EXCEPT !.tx_list = Append(@, tx),
                                     !.updaters = @ \cup (tx.reads \cap tx.writes)],
                         Tail(rest))

construct(rw_sets) ==
    LET g == _add_units(EmptyACG, rw_sets)
    IN [g EXCEPT !.sequence = [id \in Ids(g.tx_list) |-> 0]]

\* par_construct builds the same graph as construct.
par_construct(rw_sets) == construct(rw_sets)

(***************************************************************************)
(* hierarchcial_sort.  Addresses are ranked by in-degree (number of write  *)
(* units, highest first, ties by key).  On each address the read units     *)
(* are sequenced before the write units; the updater of the address is     *)
(* its first writer, the others follow in arrival order, each in an        *)
(* epoch of its own above every reader of the address.  A transaction      *)
(* that cannot take such a place is marked aborted.                        *)
(***************************************************************************)
in_degree(acg, k) == Cardinality({i \in DOMAIN acg.tx_list : k \in acg.tx_list[i].writes})

AddressesOf(acg) == UNION {acg.tx_list[i].reads \cup acg.tx_list[i].writes : i \in DOMAIN acg.tx_list}

RECURSIVE RankAddresses(_, _)
RankAddresses(acg, S) ==
    IF S = {} THEN <<>>
    ELSE LET top == Max({in_degree(acg, k) : k \in S})
             k0 == Min({k \in S : in_degree(acg, k) = top})
         IN <<k0>> \o RankAddresses(acg, S \ {k0})

Live(acg) == SelectSeq(acg.tx_list, LAMBDA tx : tx.id \notin acg.aborted)

read_units(acg, k) == {tx.id : tx \in {t \in Range(Live(acg)) : k \in t.reads}}

write_units(acg, k) ==
    LET ws == SelectSeq(Live(acg), LAMBDA tx : k \in tx.writes)
        up == SelectSeq(ws, LAMBDA tx : k \in tx.reads)
        ot == SelectSeq(ws, LAMBDA tx : k \notin tx.reads)
    IN [i \in 1..Len(up \o ot) |-> (up \o ot)[i].id]

sort_read_units(acg, k) ==
    LET ws == Range(write_units(acg, k))
        fresh == {r \in read_units(acg, k) \ ws : acg.sequence[r] = 0}
        taken == \E w \in ws : acg.sequence[w] = 1
    IN IF taken
       THEN [acg EXCEPT !.aborted = @ \cup fresh]
       ELSE [acg EXCEPT !.sequence = [id \in DOMAIN @ |-> IF id \in fresh THEN 1 ELSE @[id]]]

RECURSIVE sort_write_units(_, _, _, _)
sort_write_units(acg, k, ws, cur) ==
    IF ws = <<>> THEN acg
    ELSE LET w == Head(ws)
             c == Max({cur} \cup {acg.sequence[r] : r \in read_units(acg, k) \ {w}})
         IN IF acg.sequence[w] = 0
            THEN sort_write_units([acg EXCEPT !.sequence[w] = c + 1], k, Tail(ws), c + 1)
            ELSE IF acg.sequence[w] > c
            THEN sort_write_units(acg, k, Tail(ws), acg.sequence[w])
            ELSE sort_write_units([acg EXCEPT !.aborted = @ \cup {w}], k, Tail(ws), cur)

sort_address(acg, k) ==
    LET g == sort_read_units(acg, k)
    IN sort_write_units(g, k, write_units(g, k), 0)

RECURSIVE sort_addresses(_, _)
sort_addresses(acg, ks) ==
    IF ks = <<>> THEN acg ELSE sort_addresses(sort_address(acg, Head(ks)), Tail(ks))

hierarchcial_sort(acg) == sort_addresses(acg, RankAddresses(acg, AddressesOf(acg)))

(***************************************************************************)
(* reorder.  A transaction aborted by the sort is put back behind the      *)
(* last epoch when no scheduled transaction writes a key it read; the      *)
(* others leave tx_list for aborted_txs.                                   *)
(***************************************************************************)
max_seq(acg) == Max({0} \cup {acg.sequence[id] : id \in Ids(Live(acg))})

\* Every transaction aborted by the sort is put back.
always_reorderable(acg, id) == TRUE

is_reorderable(acg, id) ==
    \A u \in Range(Live(acg)) : TxOf(acg.tx_list, id).reads \cap u.writes = {}

RECURSIVE reorder_each(_, _)
reorder_each(acg, ids) ==
    IF ids = <<>> THEN acg
    ELSE LET id == Head(ids) IN
         IF is_reorderable(acg, id)
         THEN reorder_each([acg EXCEPT !.sequence[id] = max_seq(acg) + 1,
                                       !.aborted = @ \ {id}], Tail(ids))
         ELSE reorder_each(acg, Tail(ids))

reorder(acg) ==
    LET g == reorder_each(acg, SortedSeq(acg.aborted))
    IN [g EXCEPT !.tx_list = Live(g),
                 !.aborted_txs = @ \o SelectSeq(g.tx_list, LAMBDA tx : tx.id \in g.aborted)]

(***************************************************************************)
(* ScheduledInfo (optme_core.rs).                                          *)
(***************************************************************************)
FinalizedTransaction(tx) == [id |-> tx.id, effect |-> tx.effect]

AbortedTransaction(tx) ==
    [id |-> tx.id, raw_tx |-> tx.raw_tx,
     prev_write_keys |-> tx.writes, prev_read_keys |-> tx.reads]

\* The cargo features the crate is built with.
VARIABLE features

\* Rescheduling skipped whatever the features of the build.
rescheduling_disabled(enabled) == TRUE

\* Rescheduling done whatever the features of the build.
rescheduling_enabled(enabled) == FALSE

\* cfg!(feature = "disable-rescheduling").
disable_rescheduling(enabled) == "disable-rescheduling" \in enabled

\* The builds: the default one and the one with "disable-rescheduling".
Builds == SUBSET {"disable-rescheduling"}

\* Grouping without looking at seq: one epoch for the whole list.
group_all(tx_list, sequence) ==
    IF tx_list = <<>> THEN <<>>
    ELSE <<{FinalizedTransaction(tx) : tx \in Range(tx_list)}>>

\* Grouping a list sorted by descending seq.
group_by_seq_desc(tx_list, sequence) ==
    LET seqs == SortedSeq({sequence[id] : id \in Ids(tx_list)})
    IN [e \in 1..Len(seqs) |->
          {FinalizedTransaction(tx) :
              tx \in {t \in Range(tx_list) : sequence[t.id] = seqs[Len(seqs) + 1 - e]}}]

\* Grouping without the sort: the list is cut wherever seq changes, in the
\* order of the list.
RECURSIVE runs_by_seq(_, _, _)
runs_by_seq(rest, sequence, groups) ==
    IF rest = <<>> THEN groups
    ELSE LET tx == Head(rest)
             n == Len(groups)
         IN IF n > 0 /\ \E u \in groups[n] : sequence[u.id] = sequence[tx.id]
            THEN runs_by_seq(Tail(rest), sequence,
                     [groups EXCEPT ![n] = @ \cup {FinalizedTransaction(tx)}])
            ELSE runs_by_seq(Tail(rest), sequence,
                     Append(groups, {FinalizedTransaction(tx)}))

group_without_sort(tx_list, sequence) == runs_by_seq(tx_list, sequence, <<>>)

\* The groups of _schedule_sorted_txs: the list is sorted by seq and cut
\* wherever seq changes, so there is one group per distinct seq, ascending.
group_by_seq(tx_list, sequence) ==
    LET seqs == SortedSeq({sequence[id] : id \in Ids(tx_list)})
    IN [e \in 1..Len(seqs) |->
          {FinalizedTransaction(tx) : tx \in {t \in Range(tx_list) : sequence[t.id] = seqs[e]}}]

\* The order inside a group is the iteration order of the hash map and of
\* the unstable sort: every order is possible.
RECURSIVE Orderings(_)
Orderings(groups) ==
    IF groups = <<>> THEN {<<>>}
    ELSE {<<p>> \o rest : p \in Perms(Head(groups)), rest \in Orderings(Tail(groups))}

_schedule_sorted_txs(tx_list, sequence) == Orderings(group_by_seq(tx_list, sequence))

\* The search looks at the write keys of the transaction only.
RECURSIVE _find_epoch_ignoring_reads(_, _, _, _)
_find_epoch_ignoring_reads(read_keys_of_tx, write_keys_of_tx, epoch_map, epoch) ==
    IF Len(epoch_map) > epoch /\ write_keys_of_tx \cap epoch_map[epoch + 1] # {}
    THEN _find_epoch_ignoring_reads(read_keys_of_tx, write_keys_of_tx, epoch_map, epoch + 1)
    ELSE epoch

\* The first sub-epoch, whatever it holds.
always_first_epoch(read_keys_of_tx, write_keys_of_tx, epoch_map, epoch) == epoch

RECURSIVE _find_minimun_epoch_with_no_conflicts(_, _, _, _)
_find_minimun_epoch_with_no_conflicts(read_keys_of_tx, write_keys_of_tx, epoch_map, epoch) ==
    IF Len(epoch_map) > epoch
       /\ (read_keys_of_tx \cup write_keys_of_tx) \cap epoch_map[epoch + 1] # {}
    THEN _find_minimun_epoch_with_no_conflicts(read_keys_of_tx, write_keys_of_tx,
                                               epoch_map, epoch + 1)
    ELSE epoch

\* All the aborted transactions in one sub-epoch.
pack_in_one_sub_epoch(txs, epoch_map, schedule) ==
    IF txs = <<>> THEN <<>> ELSE <<txs>>

RECURSIVE pack_aborted(_, _, _)
pack_aborted(txs, epoch_map, schedule) ==
    IF txs = <<>> THEN schedule
    ELSE LET tx == Head(txs)
             epoch == _find_minimun_epoch_with_no_conflicts(
                          tx.prev_read_keys, tx.prev_write_keys, epoch_map, 0)
         IN IF epoch < Len(epoch_map)
            THEN pack_aborted(Tail(txs),
                     [epoch_map EXCEPT ![epoch + 1] = @ \cup tx.prev_write_keys],
                     [schedule EXCEPT ![epoch + 1] = Append(@, tx)])
            ELSE pack_aborted(Tail(txs),
                     Append(epoch_map, tx.prev_write_keys),
                     Append(schedule, <<tx>>))

\* The aborted transactions are packed in the order of the Vec.
schedule_without_sort(txs) ==
    IF disable_rescheduling(features) THEN <<>>
    ELSE pack_aborted([i \in DOMAIN txs |-> AbortedTransaction(txs[i])], <<>>, <<>>)

_schedule_aborted_txs(txs) ==
    LET aborted_txs == [i \in DOMAIN txs |-> AbortedTransaction(txs[i])]
        sorted == [i \in DOMAIN txs |->
                     TxOf(aborted_txs, SortedSeq(Ids(aborted_txs))[i])]
    IN IF disable_rescheduling(features) THEN <<>> ELSE pack_aborted(sorted, <<>>, <<>>)

\* The conversion loses the sequence number of the transaction.
scheduled_without_seq(tx, sequence) ==
    [seq |-> 0, tx_id |-> tx.id, effect |-> tx.effect]

\* ScheduledTransaction::from (types.rs).
ScheduledTransaction(tx, sequence) ==
    [seq |-> sequence[tx.id], tx_id |-> tx.id, effect |-> tx.effect]

\* The Vec is left as collected.
not_sorted(list) == {list}

\* list.sort_unstable_by_key(|tx| tx.seq()): ascending seq; elements of
\* equal seq end in any order.
sort_unstable_by_key(list) ==
    {[i \in DOMAIN list |-> list[p[i]]] :
        p \in {q \in Perms(DOMAIN list) :
                  \A i, j \in DOMAIN list : i < j => list[q[i]].seq <= list[q[j]].seq}}

\* The whole list as one epoch.
group_as_one(list) ==
    IF list = <<>> THEN <<>>
    ELSE <<[i \in DOMAIN list |-> [id |-> list[i].tx_id, effect |-> list[i].effect]]>>

\* list.into_iter().group_by(|tx| tx.seq()): the runs of equal seq, each
\* mapped to FinalizedTransaction.
RECURSIVE group_by(_)
group_by(list) ==
    IF list = <<>> THEN <<>>
    ELSE LET n == CHOOSE k \in 1..Len(list) :
                     /\ \A i \in 1..k : list[i].seq = list[1].seq
                     /\ k < Len(list) => list[k + 1].seq # list[1].seq
         IN <<[i \in 1..n |-> [id |-> list[i].tx_id, effect |-> list[i].effect]]>>
               \o group_by(SubSeq(list, n + 1, Len(list)))

\* ScheduledInfo::from / par_from applied to the graph left by reorder.
ScheduledInfos(acg) ==
    {[scheduled_txs |-> s, aborted_txs |-> _schedule_aborted_txs(acg.aborted_txs)] :
        s \in _schedule_sorted_txs(acg.tx_list, acg.sequence)}

scheduled_txs_len(info) == Len(Flatten(info.scheduled_txs))
aborted_txs_len(info) == Len(Flatten(info.aborted_txs))

(***************************************************************************)
(* Inputs of the scheduling pipeline: every list of at most MaxSimTxs      *)
(* simulated transactions over Keys, and the scenarios of optme_tests.rs.  *)
(* The effect of a simulated transaction writes its id to its write keys.  *)
(***************************************************************************)
Tx(id, r, w) == SimulatedTransaction(id, r, w, [k \in w |-> id], id)

RwPairs == {p \in (SUBSET Keys) \X (SUBSET Keys) : p[1] \cup p[2] # {}}

Scenario1 == <<Tx(1, {2}, {1}), Tx(2, {3}, {2}), Tx(3, {4}, {2}),
               Tx(4, {4}, {3}), Tx(5, {4}, {4}), Tx(6, {1}, {3})>>
Scenario2 == <<Tx(1, {2}, {1}), Tx(3, {4}, {2}), Tx(2, {3}, {2}),
               Tx(4, {4}, {3}), Tx(5, {4}, {4}), Tx(6, {1}, {3})>>
Scenario3 == <<Tx(1, {2}, {1}), Tx(2, {3}, {2}), Tx(3, {4}, {2}),
               Tx(6, {1}, {3}), Tx(5, {4}, {4}), Tx(4, {4}, {3})>>
Scenario4 == <<Tx(1, {2}, {1}), Tx(2, {3}, {2}), Tx(3, {4}, {2}),
               Tx(4, {4}, {4}), Tx(5, {4}, {4}), Tx(6, {1}, {3})>>
Scenario5 == Scenario4 \o <<Tx(7, {4}, {4})>>
Scenario6 == <<Tx(1, {1, 2}, {1, 2}), Tx(2, {3, 4}, {3, 4}), Tx(3, {3, 2}, {3, 2})>>
ScenarioReordering == <<Tx(1, {}, {1, 2}), Tx(2, {2}, {1})>>

Scenarios == {Scenario1, Scenario2, Scenario3, Scenario4, Scenario5, Scenario6,
              ScenarioReordering}

(***************************************************************************)
(* Part 2.  ConcurrencyLevelManager.                                       *)
(*                                                                         *)
(* An EVM transaction is a small program: it reads the keys rd, writes     *)
(* the keys wr (or the keys alt when the value it reads at sw is not 0)    *)
(* the value c plus the sum of what it read, or reverts: always (ok is     *)
(* FALSE) or when the value at rv is not 0.                                *)
(***************************************************************************)
EthereumTransaction(rd, wr, sw, alt, c, ok) ==
    [rd |-> rd, wr |-> wr, sw |-> sw, alt |-> alt, c |-> c, ok |-> ok, rv |-> 0]

\* The transaction tx with a guard: it reverts when the value at k is not 0.
RevertingOn(tx, k) == [tx EXCEPT !.rv = k]

TxUpdateBoth == EthereumTransaction({1, 2}, {1, 2}, 0, {}, 1, TRUE)
TxMoveFirst  == EthereumTransaction({1}, {1}, 1, {2}, 1, TRUE)
TxMoveSecond == EthereumTransaction({2}, {2}, 2, {1}, 2, TRUE)
TxUpdateSecond == EthereumTransaction({2}, {2}, 0, {}, 2, TRUE)
TxWriteBoth  == EthereumTransaction({}, {1, 2}, 0, {}, 1, TRUE)
TxCopy       == EthereumTransaction({2}, {1}, 0, {}, 2, TRUE)
TxSkipSecond == EthereumTransaction({2}, {2}, 2, {}, 2, TRUE)
TxOnceSecond == RevertingOn(TxUpdateSecond, 2)
TxReverted   == EthereumTransaction({}, {}, 0, {}, 0, FALSE)

TxPool == {TxUpdateBoth, TxMoveFirst, TxMoveSecond, TxUpdateSecond,
           TxWriteBoth, TxCopy, TxReverted}

ExecutableEthereumBatch(data, digest) == [digest |-> digest, data |-> data]

IndexedEthereumTransaction(tx, id) == [id |-> id, data |-> tx]

RECURSIVE SumOver(_, _)
SumOver(S, f) ==
    IF S = {} THEN 0
    ELSE LET k == Min(S) IN f[k] + SumOver(S \ {k}, f)

\* evm_utils::simulate_tx: Ok(Some((effect, log, rw_set))) or a failure.
simulate_tx(tx, snapshot) ==
    IF ~tx.ok \/ (tx.rv # 0 /\ snapshot[tx.rv] # 0) THEN [ok |-> FALSE]
    ELSE LET writes == IF tx.sw # 0 /\ snapshot[tx.sw] # 0 THEN tx.alt ELSE tx.wr
             v == (tx.c + SumOver(tx.rd, snapshot)) % NumVals
         IN [ok |-> TRUE,
             effect |-> [k \in writes |-> v],
             rw_set |-> [reads |-> tx.rd, writes |-> writes]]

\* The simulation writes its effects through to the snapshot.
simulate_tx_writes_through(tx, snapshot) ==
    IF simulate_tx(tx, snapshot).ok
    THEN [k \in DOMAIN snapshot |->
            IF k \in DOMAIN simulate_tx(tx, snapshot).effect
            THEN simulate_tx(tx, snapshot).effect[k] ELSE snapshot[k]]
    ELSE snapshot

\* The snapshot after evm_utils::simulate_tx: the writes of the simulation
\* are captured in the effect returned, never applied.
snapshot_after_simulate_tx(tx, snapshot) == snapshot

\* The values of an effect are added to the ones stored.
apply_adding(state, effect) ==
    [k \in DOMAIN state |->
        IF k \in DOMAIN effect THEN (state[k] + effect[k]) % NumVals ELSE state[k]]

\* ConcurrentEVMStorage::apply_local_effect.
apply_local_effect(state, effect) ==
    [k \in DOMAIN state |-> IF k \in DOMAIN effect THEN effect[k] ELSE state[k]]

extract_read_set(rw_set) == rw_set.reads
extract_write_set(rw_set) == rw_set.writes

ReExecutedTransaction(tx, effect, rw_set) ==
    [id |-> tx.id, effect |-> effect, rw_set |-> rw_set, raw_tx |-> tx]

write_set(tx) == extract_write_set(tx.rw_set)

\* Only the sizes are compared.
is_disjoint_sizes(left, right) ==
    Cardinality(left) <= Cardinality(right) \/ Cardinality(left) > Cardinality(right)

is_disjoint(left, right) ==
    \/ Cardinality(left) <= Cardinality(right) /\ left \cap right = {}
    \/ Cardinality(left) > Cardinality(right) /\ right \cap left = {}

\* A slot of the parallel iterator of _simulate / _re_execute.
Todo == [st |-> "todo"]
Dropped == [st |-> "none"]
Produced(tx) == [st |-> "some", tx |-> tx]

\* The closure of filter_map in _simulate.
simulate_one(tx, snapshot) ==
    LET r == simulate_tx(tx.data, snapshot)
    IN IF r.ok
       THEN Produced(SimulatedTransaction(tx.id, extract_read_set(r.rw_set),
                                          extract_write_set(r.rw_set), r.effect, tx))
       ELSE Dropped

\* A failed re-execution yields a transaction without effects.
re_execute_one_keep_failed(tx, snapshot) ==
    LET r == simulate_tx(tx.data, snapshot)
    IN IF r.ok THEN Produced(ReExecutedTransaction(tx, r.effect, r.rw_set))
       ELSE Produced(ReExecutedTransaction(tx, <<>>, [reads |-> {}, writes |-> {}]))

\* The closure of filter_map in _re_execute.
re_execute_one(tx, snapshot) ==
    LET r == simulate_tx(tx.data, snapshot)
    IN IF r.ok THEN Produced(ReExecutedTransaction(tx, r.effect, r.rw_set)) ELSE Dropped

\* collect() of the parallel iterator keeps the order of the input.
RECURSIVE collect(_)
collect(ss) ==
    IF ss = <<>> THEN <<>>
    ELSE (IF Head(ss).st = "some" THEN <<Head(ss).tx>> ELSE <<>>) \o collect(Tail(ss))

\* Ids counted from 1.
enumerate_from_one(txs) == [i \in DOMAIN txs |-> IndexedEthereumTransaction(txs[i], i)]

enumerate(txs) == [i \in DOMAIN txs |-> IndexedEthereumTransaction(txs[i], i - 1)]

_unpack_batches(batches) ==
    [digests |-> [i \in DOMAIN batches |-> batches[i].digest],
     tx_list |-> enumerate(Flatten([i \in DOMAIN batches |-> batches[i].data]))]

\* Windows of one batch whatever the level.
split_idx_one(level, tgt) == Min({1, Len(tgt)})

split_idx(level, tgt) == Min({level, Len(tgt)})

\* Splitting one element too far.
split_off_by_one(tgt, at) == SubSeq(tgt, at + 2, Len(tgt))

split_off(tgt, at) == SubSeq(tgt, at + 1, Len(tgt))

\* The write sets of the rejected transactions are added to W too.
RECURSIVE validate_each_grow(_, _, _, _)
validate_each_grow(rw_set, ws, valid_txs, invalid_txs) ==
    IF rw_set = <<>> THEN [valid |-> valid_txs, invalid |-> invalid_txs]
    ELSE LET tx == Head(rw_set)
             set == extract_write_set(tx.rw_set)
         IN IF set \cap ws = {}
            THEN validate_each_grow(Tail(rw_set), ws \cup set, Append(valid_txs, tx), invalid_txs)
            ELSE validate_each_grow(Tail(rw_set), ws \cup set, valid_txs, Append(invalid_txs, tx))

\* The loop of the worker of _validate_optimistic_assumption.
RECURSIVE validate_each(_, _, _, _)
validate_each(rw_set, ws, valid_txs, invalid_txs) ==
    IF rw_set = <<>> THEN [valid |-> valid_txs, invalid |-> invalid_txs]
    ELSE LET tx == Head(rw_set)
             set == write_set(tx)
         IN IF is_disjoint(set, ws)
            THEN validate_each(Tail(rw_set), ws \cup set, Append(valid_txs, tx), invalid_txs)
            ELSE validate_each(Tail(rw_set), ws, valid_txs, Append(invalid_txs, tx))

\* The rejected transactions are committed with the accepted ones.
_validate_commit_all(rw_set) ==
    LET r == validate_each(rw_set, {}, <<>>, <<>>)
    IN [valid |-> rw_set, some |-> r.invalid # <<>>, invalid |-> r.invalid]

\* Validation that accepts the whole list.
_validate_accept_all(rw_set) == [valid |-> rw_set, some |-> FALSE, invalid |-> <<>>]

\* The worker spawned by _validate_optimistic_assumption and what it sends.
validate_worker(rw_set) ==
    LET r == validate_each(rw_set, {}, <<>>, <<>>)
    IN [valid |-> r.valid, some |-> r.invalid # <<>>, invalid |-> r.invalid]

\* A list of one transaction is reported invalid instead of committed.
_validate_single_rejected(rw_set) ==
    IF Len(rw_set) = 1
    THEN [valid |-> <<>>, some |-> TRUE, invalid |-> rw_set]
    ELSE validate_worker(rw_set)

\* valid: what is handed to _concurrent_commit_2; some/invalid: the Option returned.
_validate_optimistic_assumption(rw_set) ==
    IF Len(rw_set) = 1
    THEN [valid |-> rw_set, some |-> FALSE, invalid |-> <<>>]
    ELSE validate_worker(rw_set)

\* The accepted transactions are handed to the commit as two epochs.
commit_in_two_epochs(scheduled_txs) ==
    LET epoch == [i \in DOMAIN scheduled_txs |-> FinalizedTransaction(scheduled_txs[i])]
    IN <<epoch, epoch>>

\* The single epoch built by _concurrent_commit_2.
_concurrent_commit_2(scheduled_txs) ==
    <<[i \in DOMAIN scheduled_txs |-> FinalizedTransaction(scheduled_txs[i])]>>

(***************************************************************************)
(* State.                                                                  *)
(*   g_*                the scheduling pipeline run on its own: input,     *)
(*                      stage, graph, ScheduledInfo; g_rayon tells the     *)
(*                      parallel pipeline (par_construct,                  *)
(*                      par_extract_schedule) from the sequential one;     *)
(*                      g_work and g_list are the parallel iterator of     *)
(*                      _schedule_sorted_txs: the transactions still to    *)
(*                      convert and the Vec collected so far               *)
(*   consensus_output,  the input and configuration of prepare_execution   *)
(*   concurrency_level,                                                    *)
(*   features                                                              *)
(*   global_state       the shared snapshot                                *)
(*   pc, target,        prepare_execution / _execute (the orchestrator)    *)
(*   remains, result,                                                      *)
(*   digests, tx_list,                                                     *)
(*   scheduled_info,                                                       *)
(*   scheduled_aborted_txs, re_list                                        *)
(*   slots              the parallel iterator of _simulate / _re_execute   *)
(*   commit_*, signal   the worker spawned by _concurrent_commit           *)
(*   snapshot0, accepted, invalidated, committed, epoch_base               *)
(*                      history of the current window                      *)
(*   validations        the calls of _validate_optimistic_assumption in    *)
(*                      the current window: snapshot, list re-executed,    *)
(*                      argument of the validation,                        *)
(*                      list committed, Option returned                    *)
(*   f_stage, f_in,     a function applied on its own: argument and result *)
(*   f_out                                                                 *)
(*   windows            the windows handed to _execute so far (the first   *)
(*                      Len(consensus_output) + 1 of them)                 *)
(***************************************************************************)
VARIABLES g_input, g_stage, g_acg, g_info, g_rayon, g_work, g_list,
          consensus_output, concurrency_level, global_state,
          pc, target, remains, result, digests, tx_list,
          scheduled_info, scheduled_aborted_txs, re_list, slots,
          commit_epochs, commit_idx, commit_pending, commit_running,
          commit_applied, signal,
          snapshot0, accepted, invalidated, committed, epoch_base, windows,
          validations, f_stage, f_in, f_out

gvars == <<g_input, g_stage, g_acg, g_info, g_rayon, g_work, g_list>>

input_vars == <<consensus_output, concurrency_level, features>>

loop_vars == <<target, remains, result>>

window_vars == <<digests, tx_list, scheduled_info, scheduled_aborted_txs, re_list>>

commit_vars == <<commit_epochs, commit_idx, commit_pending, commit_running,
                 commit_applied, signal, epoch_base>>

history_vars == <<snapshot0, accepted, invalidated, validations>>

pvars == <<input_vars, global_state, pc, loop_vars, window_vars, slots,
           commit_vars, history_vars, committed, windows>>

\* A function of the program applied on its own to an argument.
fvars == <<f_stage, f_in, f_out>>

vars == <<gvars, pvars, fvars>>

EmptyInfo == [scheduled_txs |-> <<>>, aborted_txs |-> <<>>]

ZeroState == [k \in Keys |-> 0]

\* The orchestrator and the commit worker before the first window.
IdlePipeline ==
    /\ global_state = ZeroState
    /\ target = consensus_output
    /\ remains = <<>>
    /\ result = <<>>
    /\ digests = <<>>
    /\ tx_list = <<>>
    /\ scheduled_info = EmptyInfo
    /\ scheduled_aborted_txs = <<>>
    /\ re_list = <<>>
    /\ slots = <<>>
    /\ commit_epochs = <<>>
    /\ commit_idx = 0
    /\ commit_pending = {}
    /\ commit_running = {}
    /\ commit_applied = {}
    /\ signal = TRUE
    /\ epoch_base = ZeroState
    /\ snapshot0 = ZeroState
    /\ accepted = <<>>
    /\ windows = <<>>
    /\ invalidated = <<>>
    /\ validations = <<>>
    /\ committed = {}

IdleFunction ==
    /\ f_stage = "idle"
    /\ f_in = <<>>
    /\ f_out = <<>>

IdleACG ==
    /\ g_input = <<>>
    /\ g_stage = "idle"
    /\ g_acg = EmptyACG
    /\ g_info = EmptyInfo
    /\ g_rayon = FALSE
    /\ g_work = {}
    /\ g_list = <<>>

(***************************************************************************)
(* The scheduling pipeline on its own, as the unit tests drive it:         *)
(* construct -> hierarchcial_sort -> reorder -> extract_schedule.          *)
(***************************************************************************)
InitACG ==
    /\ \/ g_input \in Scenarios
       \/ \E n \in 0..MaxSimTxs : \E f \in [1..n -> RwPairs] :
             g_input = [i \in 1..n |-> Tx(i, f[i][1], f[i][2])]
    /\ g_rayon \in BOOLEAN
    /\ g_stage = "simulated"
    /\ g_acg = EmptyACG
    /\ g_info = EmptyInfo
    /\ g_work = {}
    /\ g_list = <<>>
    /\ consensus_output = <<>>
    /\ concurrency_level = 1
    /\ features \in Builds
    /\ pc = "idle"
    /\ IdlePipeline
    /\ IdleFunction

\* construct, or par_construct in the parallel pipeline.
Construct ==
    /\ g_stage = "simulated"
    /\ g_acg' = IF g_rayon THEN par_construct(g_input) ELSE construct(g_input)
    /\ g_stage' = "constructed"
    /\ UNCHANGED <<g_input, g_info, g_rayon, g_work, g_list, pvars, fvars>>

HierarchcialSort ==
    /\ g_stage = "constructed"
    /\ g_acg' = hierarchcial_sort(g_acg)
    /\ g_stage' = "sorted"
    /\ UNCHANGED <<g_input, g_info, g_rayon, g_work, g_list, pvars, fvars>>

Reorder ==
    /\ g_stage = "sorted"
    /\ g_acg' = reorder(g_acg)
    /\ g_stage' = "reordered"
    /\ UNCHANGED <<g_input, g_info, g_rayon, g_work, g_list, pvars, fvars>>

\* extract_schedule: ScheduledInfo::from.
ExtractSchedule ==
    /\ g_stage = "reordered"
    /\ ~g_rayon
    /\ g_info' \in ScheduledInfos(g_acg)
    /\ g_stage' = "extracted"
    /\ UNCHANGED <<g_input, g_acg, g_rayon, g_work, g_list, pvars, fvars>>

\* par_extract_schedule: ScheduledInfo::par_from.  _schedule_aborted_txs
\* runs first: its parallel iterator is over a Vec, so collect keeps the
\* order; then the workers of _schedule_sorted_txs start on the hash map.
ParExtractAborted ==
    /\ g_stage = "reordered"
    /\ g_rayon
    /\ g_info' = [scheduled_txs |-> <<>>,
                  aborted_txs |-> _schedule_aborted_txs(g_acg.aborted_txs)]
    /\ g_work' = Ids(g_acg.tx_list)
    /\ g_list' = <<>>
    /\ g_stage' = "collecting"
    /\ UNCHANGED <<g_input, g_acg, g_rayon, pvars, fvars>>

\* A worker of into_par_iter().map(ScheduledTransaction::from) converts one
\* transaction of the hash map; the Vec is collected in the order in which
\* the workers deliver.
ParConvert ==
    /\ g_stage = "collecting"
    /\ \E id \in g_work :
          /\ g_list' = Append(g_list,
                           ScheduledTransaction(TxOf(g_acg.tx_list, id), g_acg.sequence))
          /\ g_work' = g_work \ {id}
    /\ UNCHANGED <<g_input, g_stage, g_acg, g_info, g_rayon, pvars, fvars>>

\* The collected Vec is sorted by seq and cut into the epochs.
ParGroup ==
    /\ g_stage = "collecting"
    /\ g_work = {}
    /\ \E list \in sort_unstable_by_key(g_list) :
          g_info' = [g_info EXCEPT !.scheduled_txs = group_by(list)]
    /\ g_stage' = "extracted"
    /\ UNCHANGED <<g_input, g_acg, g_rayon, g_work, g_list, pvars, fvars>>

NextACG ==
    \/ Construct
    \/ HierarchcialSort
    \/ Reorder
    \/ ExtractSchedule
    \/ ParExtractAborted
    \/ ParConvert
    \/ ParGroup

SpecACG == InitACG /\ [][NextACG]_vars

(***************************************************************************)
(* prepare_execution and _execute.                                         *)
(***************************************************************************)
RECURSIVE SumSeq(_)
SumSeq(s) == IF s = <<>> THEN 0 ELSE Head(s) + SumSeq(Tail(s))

Offset(lens, b) == SumSeq(SubSeq(lens, 1, b - 1))

\* Windows of three transactions: two aborted transactions re-executed in
\* one sub-epoch (with write sets that stay disjoint, or that collide), in
\* two sub-epochs, behind an epoch of two transactions, and with a
\* re-execution that writes nothing or that fails.
ScenarioWindows ==
    {<<TxUpdateBoth, TxMoveFirst, TxMoveSecond>>,
     <<TxUpdateBoth, TxMoveFirst, TxUpdateSecond>>,
     <<TxUpdateBoth, TxUpdateSecond, TxUpdateSecond>>,
     <<TxMoveFirst, TxUpdateSecond, TxUpdateSecond>>,
     <<TxUpdateBoth, TxMoveFirst, TxSkipSecond>>,
     <<TxUpdateBoth, TxMoveFirst, TxOnceSecond>>,
     <<TxReverted, TxUpdateBoth, TxOnceSecond>>}

\* Every list of at most MaxTxs transactions of the pool, and the scenarios.
InputTxs == UNION {[1..n -> TxPool] : n \in 0..MaxTxs} \cup ScenarioWindows

\* The transactions are cut into at most MaxBatches batches (empty ones
\* included); the digests are all BatchDigest::default(), as in
\* integration_tests.rs, or all different.
Init ==
    /\ \E txs \in InputTxs : \E nb \in 0..MaxBatches : \E lens \in [1..nb -> 0..Len(txs)] :
         /\ SumSeq(lens) = Len(txs)
         /\ \E distinct \in BOOLEAN :
              consensus_output =
                [b \in 1..nb |->
                   ExecutableEthereumBatch(
                       SubSeq(txs, Offset(lens, b) + 1, Offset(lens, b) + lens[b]),
                       IF distinct THEN b ELSE 0)]
    /\ concurrency_level \in 0..MaxLevel
    /\ features \in Builds
    /\ pc = "prepare"
    /\ IdlePipeline
    /\ IdleACG
    /\ IdleFunction

\* while !target.is_empty(): split the next window off target.
SplitWindow ==
    /\ pc = "prepare"
    /\ target # <<>>
    /\ remains' = split_off(target, split_idx(concurrency_level, target))
    /\ target' = SubSeq(target, 1, split_idx(concurrency_level, target))
    /\ pc' = "unpack"
    /\ windows' = IF Len(windows) <= Len(consensus_output)
                  THEN Append(windows, target') ELSE windows
    /\ UNCHANGED <<gvars, fvars, input_vars, global_state, result, window_vars, slots,
                   commit_vars, history_vars, committed>>

\* ExecutionResult::new(result)
Return ==
    /\ pc = "prepare"
    /\ target = <<>>
    /\ pc' = "done"
    /\ UNCHANGED <<gvars, fvars, input_vars, windows, global_state, loop_vars, window_vars, slots,
                   commit_vars, history_vars, committed>>

UnpackBatches ==
    /\ pc = "unpack"
    /\ digests' = _unpack_batches(target).digests
    /\ tx_list' = _unpack_batches(target).tx_list
    /\ slots' = [i \in DOMAIN tx_list' |-> Todo]
    /\ scheduled_info' = EmptyInfo
    /\ scheduled_aborted_txs' = <<>>
    /\ re_list' = <<>>
    /\ snapshot0' = global_state
    /\ accepted' = <<>>
    /\ invalidated' = <<>>
    /\ validations' = <<>>
    /\ committed' = {}
    /\ pc' = "simulate"
    /\ UNCHANGED <<gvars, fvars, input_vars, windows, global_state, loop_vars, commit_vars>>

\* One worker of _simulate runs the closure on one transaction.
SimulateOne(i) ==
    /\ pc = "simulate"
    /\ slots[i] = Todo
    /\ slots' = [slots EXCEPT ![i] = simulate_one(tx_list[i], global_state)]
    /\ global_state' = snapshot_after_simulate_tx(tx_list[i].data, global_state)
    /\ UNCHANGED <<gvars, fvars, input_vars, windows, pc, loop_vars, window_vars,
                   commit_vars, history_vars, committed>>

\* rayon::spawn of _concurrent_commit: a fresh worker and a fresh channel.
SpawnCommit(epochs) ==
    /\ commit_epochs' = epochs
    /\ commit_idx' = 0
    /\ commit_pending' = {}
    /\ commit_running' = {}
    /\ commit_applied' = {}
    /\ signal' = FALSE
    /\ epoch_base' = global_state

\* _simulate returns; the conflict graph is built, sorted, reordered and
\* extracted; _concurrent_commit(scheduled_txs) is started.
Schedule ==
    /\ pc = "simulate"
    /\ \A i \in DOMAIN slots : slots[i] # Todo
    /\ \E info \in ScheduledInfos(reorder(hierarchcial_sort(construct(collect(slots))))) :
         /\ scheduled_info' = info
         /\ scheduled_aborted_txs' = info.aborted_txs
         /\ SpawnCommit(info.scheduled_txs)
    /\ pc' = "commit"
    /\ UNCHANGED <<gvars, fvars, input_vars, windows, global_state, loop_vars, digests, tx_list,
                   re_list, slots, history_vars, committed>>

\* The loop goes on to the next epoch without joining the workers.
epoch_not_joined == TRUE

\* The for loop of the commit worker moves to the next epoch when
\* into_par_iter().for_each() of the current one has returned.
epoch_fully_applied == commit_pending = {} /\ commit_running = {}

\* The loop takes the epochs from the last one to the first one.
next_epoch_reversed(epochs, done) == epochs[Len(epochs) - done]

\* for txs_to_commit in scheduled_txs: the epoch after `done` epochs.
next_epoch(epochs, done) == epochs[done + 1]

CommitStartEpoch ==
    /\ ~signal
    /\ commit_idx < Len(commit_epochs)
    /\ epoch_fully_applied
    /\ commit_idx' = commit_idx + 1
    /\ commit_pending' = commit_pending \cup
           {<<commit_idx + 1, tx>> : tx \in Range(next_epoch(commit_epochs, commit_idx))}
    /\ epoch_base' = global_state
    /\ UNCHANGED <<gvars, fvars, input_vars, windows, global_state, pc, loop_vars, window_vars, slots,
                   commit_epochs, commit_running, commit_applied, signal,
                   history_vars, committed>>

\* A worker takes a transaction of the epoch and enters apply_local_effect.
ApplyBegin(p) ==
    /\ p \in commit_pending
    /\ commit_pending' = commit_pending \ {p}
    /\ commit_running' = commit_running \cup {p}
    /\ UNCHANGED <<gvars, fvars, input_vars, windows, global_state, pc, loop_vars, window_vars, slots,
                   commit_epochs, commit_idx, commit_applied, signal, epoch_base,
                   history_vars, committed>>

\* apply_local_effect(tx.extract()) returns.
ApplyEnd(p) ==
    /\ p \in commit_running
    /\ global_state' = apply_local_effect(global_state, p[2].effect)
    /\ commit_running' = commit_running \ {p}
    /\ commit_applied' = commit_applied \cup {<<p[1], p[2].id>>}
    /\ committed' = committed \cup {p[2].id}
    /\ UNCHANGED <<gvars, fvars, input_vars, windows, pc, loop_vars, window_vars, slots,
                   commit_epochs, commit_idx, commit_pending, signal, epoch_base,
                   history_vars>>

\* send.send(()) after the last epoch.
CommitSend ==
    /\ ~signal
    /\ commit_idx = Len(commit_epochs)
    /\ epoch_fully_applied
    /\ signal' = TRUE
    /\ UNCHANGED <<gvars, fvars, input_vars, windows, global_state, pc, loop_vars, window_vars, slots,
                   commit_epochs, commit_idx, commit_pending, commit_running,
                   commit_applied, epoch_base, history_vars, committed>>

\* The raw transactions of a sub-epoch from the last one to the first.
into_raw_txs_reversed(sub_epoch) ==
    [i \in DOMAIN sub_epoch |-> sub_epoch[Len(sub_epoch) + 1 - i].raw_tx]

\* tx_list_to_re_execute.into_iter().map(|tx| tx.into_raw_tx()).collect()
into_raw_txs(sub_epoch) == [i \in DOMAIN sub_epoch |-> sub_epoch[i].raw_tx]

\* The commit is spawned and not awaited.
commit_not_awaited == TRUE

\* let _ = recv.await
commit_awaited == signal

\* The commit has been awaited; the loop over the aborted sub-epochs takes
\* the next one and starts _re_execute, or _execute is over.
NextSubEpoch ==
    /\ pc = "commit"
    /\ commit_awaited
    /\ IF scheduled_aborted_txs = <<>>
       THEN /\ pc' = "executed"
            /\ UNCHANGED <<scheduled_aborted_txs, re_list, slots>>
       ELSE /\ pc' = "re_execute"
            /\ re_list' = into_raw_txs(Head(scheduled_aborted_txs))
            /\ slots' = [i \in DOMAIN Head(scheduled_aborted_txs) |-> Todo]
            /\ scheduled_aborted_txs' = Tail(scheduled_aborted_txs)
    /\ UNCHANGED <<gvars, fvars, input_vars, windows, global_state, loop_vars, digests, tx_list,
                   scheduled_info, commit_vars, history_vars, committed>>

\* One worker of _re_execute runs the closure on one transaction.
ReExecuteOne(i) ==
    /\ pc = "re_execute"
    /\ slots[i] = Todo
    /\ slots' = [slots EXCEPT ![i] = re_execute_one(re_list[i], global_state)]
    /\ global_state' = snapshot_after_simulate_tx(re_list[i].data, global_state)
    /\ UNCHANGED <<gvars, fvars, input_vars, windows, pc, loop_vars, window_vars,
                   commit_vars, history_vars, committed>>

\* _re_execute returns; _validate_optimistic_assumption splits the list and
\* starts _concurrent_commit_2 on the valid part.
Validate ==
    /\ pc = "re_execute"
    /\ \A i \in DOMAIN slots : slots[i] # Todo
    /\ LET v == _validate_optimistic_assumption(collect(slots))
       IN /\ SpawnCommit(_concurrent_commit_2(v.valid))
          /\ accepted' = Append(accepted, [i \in DOMAIN v.valid |-> v.valid[i].id])
          /\ invalidated' = invalidated \o [i \in DOMAIN v.invalid |-> v.invalid[i].id]
          /\ validations' = Append(validations,
                 [snapshot |-> global_state, tx_list |-> re_list,
                  rw_set |-> collect(slots), valid |-> v.valid,
                  some |-> v.some, invalid |-> v.invalid])
    /\ pc' = "commit"
    /\ UNCHANGED <<gvars, fvars, input_vars, windows, global_state, loop_vars, window_vars, slots,
                   snapshot0, committed>>

\* _execute returns digests; result.extend(..); target = remains.
ReturnDigests ==
    /\ pc = "executed"
    /\ result' = result \o digests
    /\ target' = remains
    /\ pc' = "prepare"
    /\ UNCHANGED <<gvars, fvars, input_vars, windows, global_state, remains, window_vars, slots,
                   commit_vars, history_vars, committed>>

Next ==
    \/ SplitWindow
    \/ Return
    \/ UnpackBatches
    \/ \E i \in DOMAIN slots : SimulateOne(i)
    \/ Schedule
    \/ CommitStartEpoch
    \/ \E p \in commit_pending : ApplyBegin(p)
    \/ \E p \in commit_running : ApplyEnd(p)
    \/ CommitSend
    \/ NextSubEpoch
    \/ \E i \in DOMAIN slots : ReExecuteOne(i)
    \/ Validate
    \/ ReturnDigests

Spec == Init /\ [][Next]_vars

(***************************************************************************)
(* _validate_optimistic_assumption on its own: every list of at most       *)
(* MaxValidated re-executed transactions, with any write sets over Keys.   *)
(***************************************************************************)
ReExecuted(id, writes) ==
    ReExecutedTransaction(IndexedEthereumTransaction(TxReverted, id),
                          [k \in writes |-> 1],
                          [reads |-> {}, writes |-> writes])

InitValidate ==
    /\ f_stage = "re_executed"
    /\ \E n \in 0..MaxValidated : \E ws \in [1..n -> SUBSET Keys] :
          f_in = [i \in 1..n |-> ReExecuted(i - 1, ws[i])]
    /\ f_out = <<>>
    /\ IdleACG
    /\ consensus_output = <<>>
    /\ concurrency_level = 1
    /\ features = {}
    /\ pc = "idle"
    /\ IdlePipeline

ValidateList ==
    /\ f_stage = "re_executed"
    /\ f_out' = _validate_optimistic_assumption(f_in)
    /\ f_stage' = "validated"
    /\ UNCHANGED <<f_in, gvars, pvars>>

NextValidate == ValidateList

SpecValidate == InitValidate /\ [][NextValidate]_vars

(***************************************************************************)
(* _schedule_aborted_txs on its own (rescheduling enabled): every list of  *)
(* at most MaxAborted aborted transactions with any recorded rw-sets over  *)
(* Keys, given in ascending or descending id order, and the aborted        *)
(* transactions of test_scenario_4 and test_scenario_5.                    *)
(***************************************************************************)
AbortedOfScenario4 == <<Tx(5, {4}, {4}), Tx(6, {1}, {3})>>
AbortedOfScenario5 == AbortedOfScenario4 \o <<Tx(7, {4}, {4})>>

InitPack ==
    /\ f_stage = "aborted"
    /\ \/ f_in \in {AbortedOfScenario4, AbortedOfScenario5}
       \/ \E n \in 0..MaxAborted : \E f \in [1..n -> RwPairs] : \E descending \in BOOLEAN :
             f_in = [i \in 1..n |->
                       Tx(IF descending THEN n + 1 - i ELSE i, f[i][1], f[i][2])]
    /\ f_out = <<>>
    /\ IdleACG
    /\ consensus_output = <<>>
    /\ concurrency_level = 1
    /\ features = {}
    /\ pc = "idle"
    /\ IdlePipeline

ScheduleAborted ==
    /\ f_stage = "aborted"
    /\ f_out' = _schedule_aborted_txs(f_in)
    /\ f_stage' = "packed"
    /\ UNCHANGED <<f_in, gvars, pvars>>

NextPack == ScheduleAborted

SpecPack == InitPack /\ [][NextPack]_vars

(***************************************************************************)
(* Properties of the scheduling pipeline (checked under SpecACG).          *)
(***************************************************************************)
Extracted == g_stage = "extracted"

IdsOfEpochs(epochs) ==
    [e \in DOMAIN epochs |-> [i \in DOMAIN epochs[e] |-> epochs[e][i].id]]

ScheduledIds(info) == Range(Flatten(IdsOfEpochs(info.scheduled_txs)))

AbortedIds(info) == Range(Flatten(IdsOfEpochs(info.aborted_txs)))

\* The index of the epoch of a scheduled transaction.
EpochOf(info, id) ==
    CHOOSE e \in DOMAIN info.scheduled_txs :
        \E i \in DOMAIN info.scheduled_txs[e] : info.scheduled_txs[e][i].id = id

WritesOf(id) == TxOf(g_input, id).writes

ReadsOf(id) == TxOf(g_input, id).reads

Covered(info) ==
    LET all == Flatten(IdsOfEpochs(info.scheduled_txs))
                 \o Flatten(IdsOfEpochs(info.aborted_txs))
    IN /\ \A i \in DOMAIN g_input :
            Cardinality({j \in DOMAIN all : all[j] = g_input[i].id}) = 1
       /\ Len(all) = Len(g_input)
       /\ scheduled_txs_len(info) + aborted_txs_len(info) = Len(g_input)

RECURSIVE ApplyAll(_, _)
ApplyAll(state, txs) ==
    IF txs = <<>> THEN state
    ELSE ApplyAll(apply_local_effect(state, Head(txs).effect), Tail(txs))

\* Serial execution: each transaction is simulated on the state left by the
\* previous one and its effects are applied at once.
RECURSIVE SerialExecute(_, _)
SerialExecute(state, txs) ==
    IF txs = <<>> THEN state
    ELSE LET r == simulate_tx(Head(txs).data, state)
         IN SerialExecute(IF r.ok THEN apply_local_effect(state, r.effect) ELSE state,
                          Tail(txs))

SortById(txs) == [i \in 1..Cardinality(Ids(txs)) |-> TxOf(txs, SortedSeq(Ids(txs))[i])]

\* The scheduled transactions in (epoch, id) order.
EpochIdOrder(epochs) == Flatten([e \in DOMAIN epochs |-> SortById(epochs[e])])

RawTxs(ids) == [i \in DOMAIN ids |-> TxOf(tx_list, ids[i])]

AcceptedIds == Range(Flatten(accepted))

FirstRoundCommitted == pc = "commit" /\ accepted = <<>> /\ signal

WindowExecuted == pc = "executed"

\* C3 as the specification states it: the snapshot after _execute is the one
\* obtained by executing serially the scheduled transactions in (epoch, id)
\* order and then the validator-accepted re-executed transactions in id order.
C3_SerialEquivalence ==
    WindowExecuted =>
        global_state =
            SerialExecute(snapshot0,
                RawTxs(Flatten(IdsOfEpochs(
                           [e \in DOMAIN scheduled_info.scheduled_txs |->
                               SortById(scheduled_info.scheduled_txs[e])])))
                  \o RawTxs(SortedSeq(AcceptedIds)))

RECURSIVE ReExecuteInOrder(_, _)
ReExecuteInOrder(state, sub_epochs) ==
    IF sub_epochs = <<>> THEN state
    ELSE LET rx == collect([i \in DOMAIN Head(sub_epochs) |->
                               re_execute_one(Head(sub_epochs)[i].raw_tx, state)])
             v == _validate_optimistic_assumption(rx)
         IN ReExecuteInOrder(ApplyAll(state, Head(_concurrent_commit_2(v.valid))),
                             Tail(sub_epochs))

ExecuteInOrder(state, txs) ==
    LET rw_sets == collect([i \in DOMAIN txs |-> simulate_one(txs[i], state)])
        acg == reorder(hierarchcial_sort(construct(rw_sets)))
        groups == group_by_seq(acg.tx_list, acg.sequence)
        aborted == _schedule_aborted_txs(acg.aborted_txs)
        committed1 == ApplyAll(state,
                          Flatten([e \in DOMAIN groups |->
                                      [i \in 1..Cardinality(groups[e]) |->
                                          CHOOSE tx \in groups[e] :
                                              tx.id = SortedSeq({t.id : t \in groups[e]})[i]]]))
    IN [state |-> ReExecuteInOrder(committed1, aborted),
        epochs |-> [e \in DOMAIN groups |-> {t.id : t \in groups[e]}],
        aborted_txs |-> aborted]

CommitStarted == {<<p[1], p[2].id>> : p \in commit_running} \cup commit_applied

\* C8: epoch barrier: in _concurrent_commit every apply of epoch e has
\* returned before any apply of epoch e+1 starts, and the completion signal
\* is sent only after the last epoch is fully applied.
C8_EpochBarrier ==
    /\ \A s \in CommitStarted : \A e \in 1..(s[1] - 1) :
          \A i \in DOMAIN commit_epochs[e] : <<e, commit_epochs[e][i].id>> \in commit_applied
    /\ signal =>
          /\ commit_pending = {}
          /\ commit_running = {}
          /\ \A e \in DOMAIN commit_epochs : \A i \in DOMAIN commit_epochs[e] :
                <<e, commit_epochs[e][i].id>> \in commit_applied

\* An apply of the second epoch of a commit is running.
C8_Witness ==
    /\ Len(commit_epochs) >= 2
    /\ \E p \in commit_running : p[1] = 2
    /\ ~signal

\* C9: re-simulation sees all earlier commits: while a sub-epoch is
\* re-simulated the first-round commit and the commits of the accepted
\* transactions of every earlier sub-epoch have completed: the commit worker
\* has signalled, no apply is pending or running, and every scheduled and
\* every accepted transaction has been applied to the snapshot.
C9_ReSimulationAfterCommits ==
    pc = "re_execute" =>
        /\ signal
        /\ commit_pending = {}
        /\ commit_running = {}
        /\ ScheduledIds(scheduled_info) \subseteq committed
        /\ AcceptedIds \subseteq committed

\* The second sub-epoch is being re-simulated after a first-round commit and
\* the commit of an accepted transaction of the first sub-epoch.
C9_Witness ==
    /\ pc = "re_execute"
    /\ ScheduledIds(scheduled_info) # {}
    /\ AcceptedIds # {}
    /\ \E i \in DOMAIN slots : slots[i] # Todo

DigestsOf(batches) == [i \in DOMAIN batches |-> batches[i].digest]

\* C10: digest reporting is decoupled from the outcome of the transactions:
\* _execute returns the digests of the batches of its window, one per batch
\* in input order, and the result of prepare_execution is the concatenation
\* over the windows: the digest of every input batch, once, in input order.
C10_DigestsReported ==
    /\ WindowExecuted => digests = DigestsOf(target)
    /\ pc = "prepare" => result \o DigestsOf(target) = DigestsOf(consensus_output)
    /\ pc = "done" => result = DigestsOf(consensus_output)

\* prepare_execution has returned two different digests although a
\* transaction was rejected by validation.
C10_Witness ==
    /\ pc = "done"
    /\ Len(result) = 2
    /\ result[1] # result[2]
    /\ invalidated # <<>>

(***************************************************************************)
(* Windows, ids, validation, sub-epochs, failed simulations, frame.        *)
(***************************************************************************)
CeilDiv(n, c) == (n + c - 1) \div c

InWindow == pc \notin {"prepare", "done", "idle"}

\* C11: window partitioning: with concurrency_level c >= 1 and n input
\* batches prepare_execution runs exactly ceil(n/c) windows one after
\* another; window j holds the batches [j*c, min((j+1)*c, n)) in input
\* order, no window holds more than c batches, and a window starts only
\* after _execute of the previous one has returned its digests.
C11_WindowPartitioning ==
    concurrency_level >= 1 =>
        LET c == concurrency_level
            n == Len(consensus_output)
        IN /\ Len(windows) <= CeilDiv(n, c)
           /\ \A j \in DOMAIN windows :
                 /\ windows[j] = SubSeq(consensus_output, (j - 1) * c + 1, Min({j * c, n}))
                 /\ Len(windows[j]) \in 1..c
           /\ pc = "done" => Len(windows) = CeilDiv(n, c)
           /\ InWindow =>
                 /\ target = windows[Len(windows)]
                 /\ Len(result) = (Len(windows) - 1) * c
           /\ pc = "prepare" =>
                 /\ Len(result) = Min({Len(windows) * c, n})
                 /\ signal /\ commit_pending = {} /\ commit_running = {}

\* Three batches at level 2: a full window, then a window of one batch.
C11_Witness ==
    /\ pc = "done"
    /\ concurrency_level = 2
    /\ Len(consensus_output) = 3
    /\ Len(windows) = 2
    /\ Len(windows[2]) = 1
    /\ committed # {}

Unpacked == pc \in {"simulate", "commit", "re_execute", "executed"}

\* The transactions of the batches of a window, batch after batch.
Concatenation(batches) == Flatten([b \in DOMAIN batches |-> batches[b].data])

\* C12: transaction ids are positions in the window: the i-th transaction
\* of the concatenation of the window's batches gets the id i (from 0), so
\* the ids of a window are unique and are exactly 0..n-1; digests[k] is the
\* digest of the k-th batch; ids restart at 0 in every window.
C12_IdsArePositions ==
    Unpacked =>
        LET all == Concatenation(target)
        IN /\ Len(tx_list) = Len(all)
           /\ \A i \in DOMAIN tx_list :
                 /\ tx_list[i].id = i - 1
                 /\ tx_list[i].data = all[i]
           /\ {tx_list[i].id : i \in DOMAIN tx_list} = 0..(Len(all) - 1)
           /\ Cardinality({tx_list[i].id : i \in DOMAIN tx_list}) = Len(tx_list)
           /\ Len(digests) = Len(target)
           /\ \A k \in DOMAIN target : digests[k] = target[k].digest
           /\ ScheduledIds(scheduled_info) \subseteq 0..(Len(all) - 1)

\* The second window of a run, with two transactions or more, after a first
\* window of two batches that had transactions too.
C12_Witness ==
    /\ Unpacked
    /\ Len(windows) = 2
    /\ Len(windows[1]) = 2
    /\ Concatenation(windows[1]) # <<>>
    /\ Len(tx_list) >= 2

IdsOf(txs) == {txs[i].id : i \in DOMAIN txs}

\* The write sets of the transactions of rw_set before position i whose
\* ids are in ids.
WrittenBefore(rw_set, i, ids) ==
    UNION {write_set(rw_set[j]) : j \in {x \in 1..(i - 1) : rw_set[x].id \in ids}}

\* The elements of rw_set whose ids are in ids, in the order of rw_set.
RECURSIVE Restrict(_, _)
Restrict(rw_set, ids) ==
    IF rw_set = <<>> THEN <<>>
    ELSE (IF Head(rw_set).id \in ids THEN <<Head(rw_set)>> ELSE <<>>)
             \o Restrict(Tail(rw_set), ids)

\* The rule of validation for one call v: argument, list committed, Option.
ValidationRule(v) ==
    LET A == IdsOf(v.valid)
    IN /\ \A i \in DOMAIN v.rw_set :
             v.rw_set[i].id \in A
                 <=> write_set(v.rw_set[i]) \cap WrittenBefore(v.rw_set, i, A) = {}
       /\ v.valid = Restrict(v.rw_set, A)
       /\ v.invalid = Restrict(v.rw_set, IdsOf(v.rw_set) \ A)
       /\ \A i, j \in DOMAIN v.valid :
             i # j => write_set(v.valid[i]) \cap write_set(v.valid[j]) = {}
       /\ \A i \in DOMAIN v.rw_set :
             write_set(v.rw_set[i]) = {} => v.rw_set[i].id \in A
       /\ v.some <=> v.invalid # <<>>

\* The calls made by _execute follow the rule.
ValidationsFollowRule == \A n \in DOMAIN validations : ValidationRule(validations[n])

\* C13: optimistic validation rule: walking the re-executed list once with
\* W the union of the write sets of the transactions accepted so far, t is
\* accepted iff t.writes and W are disjoint and rejected otherwise; accepted
\* and rejected partition the input, the accepted write sets are pairwise
\* disjoint, an empty write set is always accepted, and the result is None
\* iff nothing was rejected.
C13_ValidationRule ==
    f_stage = "validated" =>
        ValidationRule([rw_set |-> f_in, valid |-> f_out.valid,
                        some |-> f_out.some, invalid |-> f_out.invalid])

\* A rejected transaction writes a key of a later transaction, which is
\* accepted nevertheless.
C13_Witness ==
    /\ f_stage = "validated"
    /\ Len(f_in) = 3
    /\ IdsOf(f_out.valid) = {0, 2}
    /\ IdsOf(f_out.invalid) = {1}
    /\ write_set(f_in[2]) \cap write_set(f_in[3]) # {}
    /\ f_out.some

Ascending(txs) == \A i, j \in DOMAIN txs : i < j => txs[i].id < txs[j].id

\* C14: validation runs in id order: the list validated for a sub-epoch is
\* in ascending id order under any scheduling of the workers of _re_execute,
\* so every rejected transaction t has an accepted transaction u of the
\* same sub-epoch with u.id < t.id and a common written key.
C14_ValidationInIdOrder ==
    /\ pc = "re_execute" => Ascending(re_list)
    /\ \A n \in DOMAIN validations :
          LET v == validations[n]
          IN /\ Ascending(v.rw_set)
             /\ \A i \in DOMAIN v.invalid :
                   \E j \in DOMAIN v.valid :
                      /\ v.valid[j].id < v.invalid[i].id
                      /\ write_set(v.valid[j]) \cap write_set(v.invalid[i]) # {}

\* A sub-epoch of two re-executed transactions, the second one rejected.
C14_Witness ==
    \E n \in DOMAIN validations :
        /\ Len(validations[n].rw_set) = 2
        /\ Len(validations[n].invalid) = 1
        /\ validations[n].invalid[1].id = validations[n].rw_set[2].id

\* The lists handed to _re_execute so far in the current window.
ReExecutedLists ==
    [n \in DOMAIN validations |-> validations[n].tx_list]
        \o (IF pc = "re_execute" THEN <<re_list>> ELSE <<>>)

\* How many times the transaction id was handed to _re_execute.
ReSimulations(id) ==
    LET all == Flatten(ReExecutedLists)
    IN Cardinality({i \in DOMAIN all : all[i].id = id})

RejectedIds == UNION {IdsOf(validations[n].invalid) : n \in DOMAIN validations}

\* C15: rejected transactions are reported and never committed or retried:
\* a re-executed transaction rejected by validation is returned in
\* Some(invalid_txs), its effects are never applied to the snapshot during
\* the window, and no aborted transaction is re-simulated more than once
\* per window.
C15_RejectedReportedNotRetried ==
    /\ \A n \in DOMAIN validations :
          validations[n].invalid # <<>> => validations[n].some
    /\ RejectedIds \cap committed = {}
    /\ \A p \in commit_pending \cup commit_running : p[2].id \notin RejectedIds
    /\ \A e \in DOMAIN scheduled_aborted_txs :
          IdsOf(scheduled_aborted_txs[e]) \cap RejectedIds = {}
    /\ \A i \in DOMAIN tx_list : ReSimulations(tx_list[i].id) <= 1
    /\ WindowExecuted =>
          /\ committed = ScheduledIds(scheduled_info) \cup AcceptedIds
          /\ \A id \in AbortedIds(scheduled_info) : ReSimulations(id) = 1

\* A window is over: a transaction was rejected, another was accepted and
\* committed after its re-execution.
C15_Witness ==
    /\ WindowExecuted
    /\ RejectedIds # {}
    /\ AcceptedIds \cap committed # {}

LastValidation == validations[Len(validations)]

\* C16: single-transaction shortcut: a list of exactly one transaction is
\* committed directly, without validation, and None is returned; the
\* snapshot and the reported invalid set are those the general validation
\* path produces on that one-element list.
C16_SingleTransactionShortcut ==
    /\ \A n \in DOMAIN validations :
          LET v == validations[n]
              general == validate_worker(v.rw_set)
          IN Len(v.rw_set) = 1 =>
                /\ v.valid = v.rw_set
                /\ ~v.some
                /\ v.valid = general.valid
                /\ v.some = general.some
                /\ v.invalid = general.invalid
    /\ (/\ pc = "commit"
        /\ signal
        /\ validations # <<>>
        /\ Len(LastValidation.rw_set) = 1)
          => /\ commit_epochs = _concurrent_commit_2(validate_worker(LastValidation.rw_set).valid)
             /\ global_state =
                  apply_local_effect(epoch_base,
                      validate_worker(LastValidation.rw_set).valid[1].effect)

\* A sub-epoch of one transaction has been re-executed and committed, and
\* the snapshot has changed.
C16_Witness ==
    /\ pc = "commit"
    /\ signal
    /\ validations # <<>>
    /\ Len(LastValidation.rw_set) = 1
    /\ global_state # epoch_base

Packed == f_stage = "packed"

\* The keys written by the transactions of sub-epoch j placed before the
\* transaction id (the transactions are placed in ascending id order).
Occupied(schedule, j, id) ==
    UNION {schedule[j][k].prev_write_keys :
              k \in {x \in DOMAIN schedule[j] : schedule[j][x].id < id}}

KeysOf(t) == t.prev_read_keys \cup t.prev_write_keys

\* C17: aborted-set first-fit packing (rescheduling enabled): the aborted
\* transactions are processed in ascending id order and each t is put into
\* the sub-epoch with the smallest index i such that t.reads \cup t.writes
\* is disjoint from occupied[i], the write sets of the transactions already
\* placed in sub-epoch i; a new last sub-epoch is opened when no index fits
\* (test_scenario_4 gives [[5,6]], test_scenario_5 gives [[5,6],[7]]).
C17_FirstFitPacking ==
    Packed =>
        /\ LET all == Flatten(IdsOfEpochs(f_out))
           IN /\ Len(all) = Len(f_in)
              /\ Range(all) = IdsOf(f_in)
        /\ \A i \in DOMAIN f_out :
              /\ f_out[i] # <<>>
              /\ Ascending(f_out[i])
              /\ \A k \in DOMAIN f_out[i] :
                    LET t == f_out[i][k]
                    IN /\ \E x \in DOMAIN f_in :
                             /\ f_in[x].id = t.id
                             /\ t.prev_read_keys = f_in[x].reads
                             /\ t.prev_write_keys = f_in[x].writes
                       /\ KeysOf(t) \cap Occupied(f_out, i, t.id) = {}
                       /\ \A j \in 1..(i - 1) :
                             KeysOf(t) \cap Occupied(f_out, j, t.id) # {}
        /\ f_in = AbortedOfScenario4 => IdsOfEpochs(f_out) = <<<<5, 6>>>>
        /\ f_in = AbortedOfScenario5 => IdsOfEpochs(f_out) = <<<<5, 6>>, <<7>>>>

\* Three transactions given in descending id order: the second one opens a
\* second sub-epoch, the third one fits in the first sub-epoch although it
\* reads a key written in the second.
C17_Witness ==
    /\ Packed
    /\ Len(f_in) = 3
    /\ f_in[1].id = 3
    /\ IdsOfEpochs(f_out) = <<<<1, 3>>, <<2>>>>
    /\ f_out[1][2].prev_read_keys \cap f_out[2][1].prev_write_keys # {}

\* C18: every aborted sub-epoch is a conflict-free retry schedule with
\* respect to the recorded rw-sets: no sub-epoch is empty, its transactions
\* are in ascending id order, and for t, u of the same sub-epoch with
\* t.id < u.id, u.reads \cup u.writes is disjoint from t.writes.
C18_SubEpochsConflictFree ==
    Extracted =>
        \A e \in DOMAIN g_info.aborted_txs :
            LET sub == g_info.aborted_txs[e]
            IN /\ sub # <<>>
               /\ Ascending(sub)
               /\ \A i, j \in DOMAIN sub :
                     sub[i].id < sub[j].id =>
                        (ReadsOf(sub[j].id) \cup WritesOf(sub[j].id))
                            \cap WritesOf(sub[i].id) = {}
               /\ \A i, j \in DOMAIN sub :
                     i # j => WritesOf(sub[i].id) \cap WritesOf(sub[j].id) = {}

\* Two sub-epochs, the first one with two transactions that both write.
C18_Witness ==
    /\ Extracted
    /\ Len(g_info.aborted_txs) = 2
    /\ Len(g_info.aborted_txs[1]) = 2
    /\ \A i \in DOMAIN g_info.aborted_txs[1] :
          WritesOf(g_info.aborted_txs[1][i].id) # {}

\* The transactions of the window whose first simulation fails.
FailedFirst == {tx_list[i].id : i \in {x \in DOMAIN tx_list :
                                          ~simulate_tx(tx_list[x].data, snapshot0).ok}}

\* The transactions handed to _re_execute before validation v whose
\* simulation on the snapshot of that time fails.
FailedAgain(v) ==
    {v.tx_list[i].id : i \in {x \in DOMAIN v.tx_list :
                                  ~simulate_tx(v.tx_list[x].data, v.snapshot).ok}}

\* The window without the transactions whose first simulation fails; the
\* others keep their ids.
RECURSIVE Without(_, _)
Without(txs, ids) ==
    IF txs = <<>> THEN <<>>
    ELSE (IF Head(txs).id \in ids THEN <<>> ELSE <<Head(txs)>>) \o Without(Tail(txs), ids)

\* _execute is never stuck: a worker has an item to process, or the list is
\* complete and the next step of _execute is defined; the commit worker has
\* an effect to apply, an epoch to start, its signal to send, or has sent it.
WindowCanProceed ==
    /\ pc = "simulate" =>
          \/ \E i \in DOMAIN slots : slots[i] = Todo
          \/ ScheduledInfos(reorder(hierarchcial_sort(construct(collect(slots))))) # {}
    /\ pc = "re_execute" =>
          \/ \E i \in DOMAIN slots : slots[i] = Todo
          \/ Len(_validate_optimistic_assumption(collect(slots)).valid) <= Len(slots)
    /\ pc = "commit" =>
          \/ commit_pending # {}
          \/ commit_running # {}
          \/ ~signal /\ commit_idx <= Len(commit_epochs)
          \/ commit_awaited

FirstRoundScheduled == pc \in {"commit", "re_execute", "executed"}

\* C19: a failed simulation drops only that transaction: it produces no
\* SimulatedTransaction (first round) or ReExecutedTransaction
\* (re-execution), gets no node of the graph, is in neither scheduled_txs
\* nor aborted_txs, and its effects are never applied; the other
\* transactions keep their ids and are processed as if it were absent, and
\* the window still completes.
C19_FailedSimulationDropped ==
    LET failed == FailedFirst
    IN
    /\ Unpacked =>
          /\ failed \cap committed = {}
          /\ \A i \in DOMAIN slots :
                (pc = "simulate" /\ tx_list[i].id \in failed) => slots[i] \in {Todo, Dropped}
    /\ FirstRoundScheduled =>
          /\ failed \cap ScheduledIds(scheduled_info) = {}
          /\ failed \cap AbortedIds(scheduled_info) = {}
          /\ features = {} =>
                ScheduledIds(scheduled_info) \cup AbortedIds(scheduled_info)
                    = IdsOf(tx_list) \ failed
    /\ \A n \in DOMAIN validations :
          LET v == validations[n]
              again == FailedAgain(v)
              others == Without(v.tx_list, again)
          IN /\ again \cap committed = {}
             /\ again \cap (IdsOf(v.valid) \cup IdsOf(v.invalid)) = {}
             /\ [i \in DOMAIN v.rw_set |-> v.rw_set[i].id]
                   = [i \in DOMAIN others |-> others[i].id]
             /\ \A i \in DOMAIN v.rw_set : v.rw_set[i].raw_tx \in Range(v.tx_list)
    /\ WindowExecuted =>
          LET rest == ExecuteInOrder(snapshot0, Without(tx_list, failed))
          IN /\ global_state = rest.state
             /\ [e \in DOMAIN scheduled_info.scheduled_txs |->
                    Ids(scheduled_info.scheduled_txs[e])] = rest.epochs
             /\ scheduled_info.aborted_txs = rest.aborted_txs
    /\ WindowCanProceed

\* A window has been executed in which the first simulation of a
\* transaction failed, the re-execution of another one failed, and a third
\* transaction was committed.
C19_Witness ==
    /\ WindowExecuted
    /\ FailedFirst # {}
    /\ \E n \in DOMAIN validations : FailedAgain(validations[n]) # {}
    /\ committed # {}

\* C20: simulation never writes the snapshot: _simulate, _re_execute, the
\* construction of the graph, sorting, reordering, schedule extraction and
\* validation leave the shared snapshot unchanged; the snapshot is modified
\* only inside _concurrent_commit, by the apply of a transaction handed
\* to it.
C20_OnlyCommitWritesSnapshot ==
    [][/\ pc \in {"prepare", "unpack", "simulate", "re_execute", "executed", "done"}
            => global_state' = global_state
       /\ global_state' # global_state
            => /\ pc = "commit" /\ pc' = "commit"
               /\ ~signal
               /\ \E p \in commit_running :
                     /\ p[2] \in Range(commit_epochs[p[1]])
                     /\ global_state' = apply_local_effect(global_state, p[2].effect)]_vars

\* The second sub-epoch has been re-executed, with effects on keys: the
\* snapshot is still the one left by the commits of the first round and of
\* the first sub-epoch.
C20_Witness ==
    /\ pc = "re_execute"
    /\ Len(validations) = 1
    /\ \A i \in DOMAIN slots : slots[i] # Todo
    /\ \E i \in DOMAIN slots : slots[i] # Dropped /\ DOMAIN slots[i].tx.effect # {}
    /\ global_state # snapshot0
    /\ global_state # LastValidation.snapshot


(***************************************************************************)
(* The seq the graph gives to the scheduled transactions (checked under    *)
(* SpecACG).                                                               *)
(***************************************************************************)
\* The scheduled transactions of lower id that write a key t reads or writes.
PriorConflicting(info, t) ==
    {u \in ScheduledIds(info) :
        /\ u < t
        /\ \/ WritesOf(t) \cap WritesOf(u) # {}
           \/ ReadsOf(t) \cap WritesOf(u) # {}}

SeqValues == SortedSeq({g_acg.sequence[id] : id \in Ids(g_acg.tx_list)})

Conflicting(t, u) ==
    \/ ReadsOf(t) \cap WritesOf(u) # {}
    \/ ReadsOf(u) \cap WritesOf(t) # {}
    \/ WritesOf(t) \cap WritesOf(u) # {}

\* Each of the two transactions reads a key the other one writes: each has
\* to commit before the other, so they cannot both be scheduled.  Two
\* updaters of one key are such a pair.
MutuallyExclusive(t, u) ==
    /\ ReadsOf(t) \cap WritesOf(u) # {}
    /\ ReadsOf(u) \cap WritesOf(t) # {}

\* The transactions the graph kept and the ones it aborted.
KeptIds == Ids(g_acg.tx_list)
DroppedIds == Ids(g_acg.aborted_txs)

EpochSets(epochs) == [e \in DOMAIN epochs |-> Ids(epochs[e])]

Snapshots == [Keys -> Vals]

\* The transactions simulated: the pool and the two whose effect depends on
\* the snapshot they are simulated on.
SimulatedPool == TxPool \cup {TxSkipSecond, TxOnceSecond}

InitApply ==
    /\ f_stage = "simulated"
    /\ \E tx \in SimulatedPool : \E seen \in Snapshots : \E state \in Snapshots :
          /\ simulate_tx(tx, seen).ok
          /\ f_in = [state |-> state, effect |-> simulate_tx(tx, seen).effect]
    /\ f_out = <<>>
    /\ IdleACG
    /\ consensus_output = <<>>
    /\ concurrency_level = 1
    /\ features = {}
    /\ pc = "idle"
    /\ IdlePipeline

\* The first apply starts from the given snapshot, the next one from the
\* snapshot the previous one left.
ApplyEffect ==
    /\ f_stage \in {"simulated", "applied"}
    /\ f_out' = Append(f_out,
                   apply_local_effect(IF f_out = <<>> THEN f_in.state ELSE f_out[Len(f_out)],
                                      f_in.effect))
    /\ f_stage' = IF f_stage = "simulated" THEN "applied" ELSE "applied_twice"
    /\ UNCHANGED <<f_in, gvars, pvars>>

NextApply == ApplyEffect

SpecApply == InitApply /\ [][NextApply]_vars

\* C24: idempotent commit: committing the same effect set E (produced by one
\* simulation) twice leaves the snapshot in the same state as committing it
\* once, from every starting snapshot.
C24_IdempotentCommit ==
    f_stage = "applied_twice" =>
        /\ f_out[2] = f_out[1]
        /\ \A k \in Keys :
              f_out[2][k] = IF k \in DOMAIN f_in.effect THEN f_in.effect[k] ELSE f_in.state[k]

\* An effect that changes the snapshot with a value other than 0 has been
\* applied twice.
C24_Witness ==
    /\ f_stage = "applied_twice"
    /\ f_out[1] # f_in.state
    /\ \E k \in DOMAIN f_in.effect : f_in.effect[k] # 0 /\ f_in.state[k] # 0


(***************************************************************************)
(* SimpleConsensusHandler::handle_consensus_output (consensus_handler.rs)  *)
(* applied on its own to one consensus output.                             *)
(*   f_in   the certificates (the digests of the header payload of each),  *)
(*          the batches of each certificate, and whether the receiver of   *)
(*          tx_consensus_certificate has been dropped                      *)
(*   f_out  the position of the loops, ethereum_batches, what the          *)
(*          executor channel has received, the result of send              *)
(***************************************************************************)
Digests == 1..NumDigests

\* A serialized transaction: 0 is not the RLP encoding of a signed
\* transaction, n > 0 is the encoding of the n-th transaction of Encoded.
Encoded == <<TxUpdateBoth, TxMoveFirst>>
SerializedTransactions == 0..Len(Encoded)

\* Malformed bytes decode to the default transaction.
decode_lenient(bytes) ==
    IF bytes \in DOMAIN Encoded THEN [ok |-> TRUE, tx |-> Encoded[bytes]]
    ELSE [ok |-> TRUE, tx |-> TxReverted]

\* EthereumTransaction::decode (sslab-core types.rs).
decode(bytes) ==
    IF bytes \in DOMAIN Encoded THEN [ok |-> TRUE, tx |-> Encoded[bytes]]
    ELSE [ok |-> FALSE]

Batch(digest, transactions) == [digest |-> digest, transactions |-> transactions]

\* The batches of at most len serialized transactions.
BatchesUpTo(len) ==
    {Batch(d, txs) : d \in Digests,
                     txs \in UNION {[1..n -> SerializedTransactions] : n \in 0..len}}

Batches == BatchesUpTo(MaxSerialized)

\* What handle_consensus_output does with the result of Sender::send:
\* let _ = ... .send(ethereum_batches).await.
after_send(sent) == "returned"

\* A consensus output of one certificate whose batches hold up to
\* MaxSerialized transactions, or of several certificates whose batches hold
\* at most one transaction; each certificate comes with up to MaxCertBatches
\* batches, well-formed or not.
InitHandler ==
    /\ f_stage = "handling"
    /\ \E n \in 0..MaxCerts :
         \E payloads \in [1..n -> SUBSET Digests] :
         \E batches \in [1..n -> UNION {[1..m -> IF n <= 1 THEN Batches ELSE BatchesUpTo(1)] :
                                            m \in 0..MaxCertBatches}] :
         \E closed \in BOOLEAN :
            f_in = [certificates |-> payloads, batches |-> batches, closed |-> closed]
    /\ f_out = [cert |-> 0, batch |-> 0, ethereum_batches |-> <<>>,
                channel |-> <<>>, send |-> "none"]
    /\ IdleACG
    /\ consensus_output = <<>>
    /\ concurrency_level = 1
    /\ features = {}
    /\ pc = "idle"
    /\ IdlePipeline

\* The batches of the current certificate have all been handled.
CertificateDone ==
    IF f_out.cert = 0 THEN TRUE ELSE f_out.batch = Len(f_in.batches[f_out.cert])

\* The outer loop takes the next certificate:
\* assert_eq!(cert.header().payload().len(), batches.len()).
NextCertificate ==
    /\ f_stage = "handling"
    /\ CertificateDone
    /\ f_out.cert < Len(f_in.certificates)
    /\ LET c == f_out.cert + 1
       IN IF Cardinality(f_in.certificates[c]) = Len(f_in.batches[c])
          THEN /\ f_out' = [f_out EXCEPT !.cert = c, !.batch = 0]
               /\ f_stage' = "handling"
          ELSE /\ f_out' = [f_out EXCEPT !.cert = c, !.batch = 0]
               /\ f_stage' = "panicked"
    /\ UNCHANGED <<f_in, gvars, pvars>>

\* The decoded transactions are pushed at the front of _batch_tx.
decode_all_reversed(transactions) ==
    [ok |-> \A i \in DOMAIN transactions : decode(transactions[i]).ok,
     txs |-> [i \in DOMAIN transactions |->
                LET j == Len(transactions) + 1 - i
                IN IF decode(transactions[j]).ok THEN decode(transactions[j]).tx
                   ELSE TxReverted]]

\* The transactions of a batch, decoded; ok is FALSE if one of them fails.
decode_all(transactions) ==
    [ok |-> \A i \in DOMAIN transactions : decode(transactions[i]).ok,
     txs |-> [i \in DOMAIN transactions |->
                IF decode(transactions[i]).ok THEN decode(transactions[i]).tx
                ELSE TxReverted]]

\* The body of the inner loop for one batch.
HandleBatch ==
    /\ f_stage = "handling"
    /\ f_out.cert >= 1
    /\ f_out.batch < Len(f_in.batches[f_out.cert])
    /\ LET batch == f_in.batches[f_out.cert][f_out.batch + 1]
           decoded == decode_all(batch.transactions)
           next == [f_out EXCEPT !.batch = @ + 1]
       IN IF batch.digest \notin f_in.certificates[f_out.cert]
          THEN f_out' = next /\ f_stage' = "panicked"
          ELSE IF batch.transactions = <<>>
          THEN f_out' = next /\ f_stage' = "handling"
          ELSE IF ~decoded.ok
          THEN f_out' = next /\ f_stage' = "panicked"
          ELSE /\ f_out' = [next EXCEPT !.ethereum_batches =
                               Append(@, ExecutableEthereumBatch(decoded.txs, batch.digest))]
               /\ f_stage' = "handling"
    /\ UNCHANGED <<f_in, gvars, pvars>>

\* After the loops: the batches are sent to the executor at once, if any.
SendBatches ==
    /\ f_stage = "handling"
    /\ CertificateDone
    /\ f_out.cert = Len(f_in.certificates)
    /\ IF f_out.ethereum_batches = <<>>
       THEN /\ f_out' = f_out
            /\ f_stage' = "returned"
       ELSE LET sent == IF f_in.closed THEN "err" ELSE "ok"
            IN /\ f_out' = [f_out EXCEPT
                              !.send = sent,
                              !.channel = IF sent = "ok"
                                          THEN Append(@, f_out.ethereum_batches) ELSE @]
               /\ f_stage' = after_send(sent)
    /\ UNCHANGED <<f_in, gvars, pvars>>

NextHandler == NextCertificate \/ HandleBatch \/ SendBatches

SpecHandler == InitHandler /\ [][NextHandler]_vars

\* A batch of the consensus output has a digest that is not in the payload
\* of its certificate, or holds a transaction that does not decode.
Malformed ==
    \E c \in DOMAIN f_in.batches : \E b \in DOMAIN f_in.batches[c] :
        \/ f_in.batches[c][b].digest \notin f_in.certificates[c]
        \/ \E i \in DOMAIN f_in.batches[c][b].transactions :
              f_in.batches[c][b].transactions[i] \notin DOMAIN Encoded

\* C25: malformed consensus input is fatal: a batch whose digest is not in
\* the header payload of its certificate, or a transaction that fails to
\* decode, panics before anything is sent: no batch of that consensus
\* output, not even a well-formed one before the bad one, reaches the
\* executor channel.
C25_MalformedInputIsFatal ==
    /\ Malformed => (f_stage # "returned" /\ f_out.channel = <<>> /\ f_out.send = "none")
    /\ f_stage = "panicked" => (f_out.channel = <<>> /\ f_out.send = "none")
    /\ (f_stage = "returned" /\ ~f_in.closed /\ f_out.ethereum_batches # <<>>)
          => f_out.channel = <<f_out.ethereum_batches>>

\* The handler has panicked on the second batch after a well-formed first
\* batch, with an open channel: nothing was sent.
C25_Witness ==
    /\ f_stage = "panicked"
    /\ ~f_in.closed
    /\ Len(f_out.ethereum_batches) = 1
    /\ f_out.batch = 2
    /\ f_out.channel = <<>>


\* C26 as the specification states it: a closed downstream channel is
\* propagated: when the receiver of the executor channel is gone, the
\* failure of the send reaches the caller of handle_consensus_output, which
\* does not return as if the send had succeeded.
C26_ClosedChannelPropagated ==
    f_out.send = "err" => f_stage # "returned"


(***************************************************************************)
(* The build with the feature disable-rescheduling (checked under Spec).   *)
(***************************************************************************)
\* The graph of the current window: the transactions simulated on the
\* snapshot the window started from, after reorder.
WindowGraph ==
    reorder(hierarchcial_sort(construct(
        collect([i \in DOMAIN tx_list |-> simulate_one(tx_list[i], snapshot0)]))))

\* The epochs the graph gives, as sets of ids; the build has no part in it.
GraphEpochs ==
    LET groups == group_by_seq(WindowGraph.tx_list, WindowGraph.sequence)
    IN [e \in DOMAIN groups |-> {tx.id : tx \in groups[e]}]

AllConflicting ==
    \A t, u \in Ids(g_input) : t # u => Conflicting(t, u)

AllMutuallyExclusive ==
    \A t, u \in Ids(g_input) : t # u => MutuallyExclusive(t, u)

\* One scheduled transaction and n - 1 sub-epochs of one aborted transaction.
OneScheduledRestAlone(n) ==
    /\ Cardinality(ScheduledIds(g_info)) = 1
    /\ Len(g_info.aborted_txs) = n - 1
    /\ \A e \in DOMAIN g_info.aborted_txs : Len(g_info.aborted_txs[e]) = 1

SequentialInfos ==
    ScheduledInfos(reorder(hierarchcial_sort(construct(g_input))))

\* The same number of (sub-)epochs, each with the same transactions.
SameEpochs(a, b) ==
    /\ Len(a) = Len(b)
    /\ \A e \in DOMAIN a :
          /\ Len(a[e]) = Len(b[e])
          /\ Ids(a[e]) = Ids(b[e])

C31_EpochIsRankOfSeq ==
    Extracted =>
        LET epochs == g_info.scheduled_txs
            all == Flatten(epochs)
        IN /\ Len(epochs) = Len(SeqValues)
           /\ \A e \in DOMAIN epochs :
                 /\ epochs[e] # <<>>
                 /\ Ids(epochs[e])
                       = {id \in KeptIds : g_acg.sequence[id] = SeqValues[e]}
           /\ \A e \in DOMAIN SeqValues :
                 e > 1 => SeqValues[e - 1] < SeqValues[e]
           /\ Len(all) = Cardinality(KeptIds)
           /\ Ids(all) = KeptIds
           /\ \A i \in DOMAIN all :
                 all[i] = [id |-> all[i].id,
                           effect |-> TxOf(g_input, all[i].id).effect]

\* Two epochs have been emitted for seq values with a gap: the index of an
\* epoch is not the seq of its transactions.
C31_Witness ==
    /\ Extracted
    /\ Len(g_info.scheduled_txs) >= 2
    /\ \E e \in DOMAIN SeqValues : SeqValues[e] # e
    /\ \E e \in DOMAIN g_info.scheduled_txs : Len(g_info.scheduled_txs[e]) >= 2


(***************************************************************************)
(* Termination of prepare_execution: the while loop on its own.  _execute  *)
(* is taken as one step that returns the digests of its window (what       *)
(* C10_DigestsReported establishes on the whole pipeline); the task that   *)
(* runs prepare_execution is always scheduled again, so every step of the  *)
(* loop that can be taken is eventually taken.                             *)
(***************************************************************************)
\* result.extend(self._execute(target).await); target = remains.
ExecuteWindow ==
    /\ pc = "unpack"
    /\ result' = result \o DigestsOf(target)
    /\ target' = remains
    /\ pc' = "prepare"
    /\ UNCHANGED <<gvars, fvars, input_vars, windows, global_state, remains,
                   window_vars, slots, commit_vars, history_vars, committed>>

NextLoop ==
    \/ SplitWindow
    \/ ExecuteWindow
    \/ Return

SpecLive ==
    /\ Init
    /\ [][NextLoop]_vars
    /\ WF_vars(SplitWindow)
    /\ WF_vars(ExecuteWindow)
    /\ WF_vars(Return)

\* C32 as the specification states it: for every finite list of batches and
\* every configured concurrency_level, 0 included, the windowing loop
\* strictly shrinks the remaining batches on each iteration and
\* prepare_execution eventually returns.
C32_PrepareExecutionReturns == <>(pc = "done")


(***************************************************************************)
(* The sub-epochs of dependent aborted transactions against their ids      *)
(* (checked under SpecPack).                                               *)
(***************************************************************************)
SubEpochOf(schedule, id) ==
    CHOOSE e \in DOMAIN schedule : \E i \in DOMAIN schedule[e] : schedule[e][i].id = id

\* One of the two aborted transactions writes a key the other reads or
\* writes.
Dependent(t, u) ==
    \/ TxOf(f_in, t).writes \cap (TxOf(f_in, u).reads \cup TxOf(f_in, u).writes) # {}
    \/ TxOf(f_in, u).writes \cap (TxOf(f_in, t).reads \cup TxOf(f_in, t).writes) # {}

\* t writes a key that u reads or writes.
WritesInto(t, u) ==
    TxOf(f_in, t).writes \cap (TxOf(f_in, u).reads \cup TxOf(f_in, u).writes) # {}

\* C33 as the specification states it: for any two aborted transactions t
\* and u with t.id < u.id such that one of them writes a key the other reads
\* or writes, u is never placed in an earlier sub-epoch than t, so u is never
\* re-executed and committed before t.
C33_SubEpochOrderFollowsIds ==
    Packed =>
        \A t, u \in IdsOf(f_in) :
            (t < u /\ Dependent(t, u))
                => SubEpochOf(f_out, u) >= SubEpochOf(f_out, t)

\* C33, amended: for two aborted transactions t and u with t.id < u.id such
\* that t writes a key u reads or writes, u is never placed in the sub-epoch
\* of t; it is placed in a later or in an earlier one, and every sub-epoch
\* before the one of u holds a transaction of lower id that writes a key u
\* reads or writes.
C33_DependentInOtherSubEpoch ==
    Packed =>
        \A u \in IdsOf(f_in) :
            /\ \A t \in IdsOf(f_in) :
                  (t < u /\ WritesInto(t, u))
                      => SubEpochOf(f_out, u) # SubEpochOf(f_out, t)
            /\ \A j \in 1..(SubEpochOf(f_out, u) - 1) :
                  \E t \in IdsOf(f_out[j]) : t < u /\ WritesInto(t, u)

\* Three aborted transactions given in id order: transaction 3 reads a key
\* that transaction 2 writes and sits in the first sub-epoch, transaction 2
\* in the second.
C33_Witness ==
    /\ Packed
    /\ Len(f_in) = 3
    /\ f_in[1].id = 1
    /\ WritesInto(2, 3)
    /\ SubEpochOf(f_out, 3) = 1
    /\ SubEpochOf(f_out, 2) = 2


(***************************************************************************)
(* How often the effects of a transaction are applied within a window      *)
(* (checked under Spec).                                                   *)
(***************************************************************************)
\* The transactions handed to a commit worker and not yet applied.
WaitingIds == {p[2].id : p \in commit_pending \cup commit_running}

\* C34: at-most-once commit: within one window the effects of a transaction
\* are applied to the snapshot at most once: a transaction about to be
\* applied has not been applied before and is handed to the commit once; a
\* transaction committed in the first round is never re-executed; an
\* aborted transaction is accepted, and so committed, at most once in the
\* re-execution round; only effects of scheduled or validator-accepted
\* transactions are applied.
C34_AtMostOnceCommit ==
    LET scheduled == ScheduledIds(scheduled_info)
        aborted == AbortedIds(scheduled_info)
        handed == Flatten(commit_epochs)
    IN /\ WaitingIds \cap committed = {}
       /\ Cardinality(WaitingIds) = Cardinality(commit_pending \cup commit_running)
       /\ Len(handed) = Cardinality(Ids(handed))
       /\ \A e \in DOMAIN commit_epochs :
             e > commit_idx => Ids(commit_epochs[e]) \cap committed = {}
       /\ WaitingIds \cup committed \subseteq scheduled \cup AcceptedIds
       /\ scheduled \cap aborted = {}
       /\ AcceptedIds \subseteq aborted
       /\ Len(Flatten(accepted)) = Cardinality(AcceptedIds)
       /\ pc = "re_execute" =>
             /\ Ids(re_list) \cap committed = {}
             /\ Ids(re_list) \cap scheduled = {}
             /\ Ids(re_list) \cap AcceptedIds = {}

\* A transaction accepted by the validator is being applied in a window in
\* which a transaction of the first round and an accepted transaction of an
\* earlier sub-epoch have been committed.
C34_Witness ==
    /\ pc = "commit"
    /\ Len(accepted) = 2
    /\ commit_running # {}
    /\ committed \cap ScheduledIds(scheduled_info) # {}
    /\ committed \cap AcceptedIds # {}
    /\ WaitingIds \cap committed = {}


(***************************************************************************)
(* What handle_consensus_output forwards for a well-formed consensus       *)
(* output (checked under SpecHandler).                                     *)
(***************************************************************************)
\* Every certificate comes with as many batches as its payload has digests,
\* the digest of every batch is in the payload of its certificate and every
\* transaction decodes.
WellFormed ==
    /\ ~Malformed
    /\ \A c \in DOMAIN f_in.certificates :
          Cardinality(f_in.certificates[c]) = Len(f_in.batches[c])

\* One ExecutableEthereumBatch per batch that holds a transaction, in
\* certificate order then batch order, with the transactions the byte
\* strings encode, in their order, and the digest of the batch.
Forwarded ==
    LET full == SelectSeq(Flatten(f_in.batches), LAMBDA b : b.transactions # <<>>)
    IN [i \in DOMAIN full |->
          [digest |-> full[i].digest,
           data |-> [k \in DOMAIN full[i].transactions |->
                        Encoded[full[i].transactions[k]]]]]

\* C35: for a well-formed consensus output handle_consensus_output does not
\* panic and sends at most one message; the message holds one
\* ExecutableEthereumBatch per batch that has at least one transaction, in
\* certificate order then batch order, with the decoded transactions in
\* their original order and the digest of the batch; batches without
\* transactions are skipped, and nothing is sent when no batch has a
\* transaction.
C35_ForwardedOnceInOrder ==
    /\ Len(f_out.channel) <= 1
    /\ WellFormed =>
          /\ f_stage # "panicked"
          /\ f_stage = "returned" =>
                /\ f_out.ethereum_batches = Forwarded
                /\ Forwarded = <<>> => (f_out.send = "none" /\ f_out.channel = <<>>)
                /\ Forwarded # <<>> => f_out.send # "none"
                /\ (Forwarded # <<>> /\ ~f_in.closed) => f_out.channel = <<Forwarded>>

\* Two certificates have been handled: a batch without transactions was
\* skipped and one message with a batch of each certificate was sent.
C35_Witness ==
    /\ f_stage = "returned"
    /\ WellFormed
    /\ Len(f_in.certificates) = 2
    /\ \A c \in DOMAIN f_in.batches : f_in.batches[c] # <<>>
    /\ \E b \in Range(Flatten(f_in.batches)) : b.transactions = <<>>
    /\ Len(f_out.channel) = 1
    /\ Len(f_out.channel[1]) = 2
    /\ f_out.channel[1][1].digest # f_out.channel[1][2].digest
    /\ f_out.channel[1][1].data # f_out.channel[1][2].data


(***************************************************************************)
(* nezha_core.rs: ScheduledInfo::_schedule_aborted_txs of the Nezha        *)
(* variant, on its own.  The sub-epoch of an aborted transaction is looked *)
(* up with slice::binary_search_by over epoch_map, with                    *)
(* _find_minimun_epoch_with_no_conflicts as the comparator.                *)
(***************************************************************************)
\* _check_anti_rw_dependencies && _check_ww_dependencies: Greater when the
\* write keys of the entry are disjoint from the keys of the transaction,
\* Less otherwise; never Equal.
nezha_find_minimun_epoch_with_no_conflicts(read_keys_of_tx, write_keys_of_tx, w_map) ==
    IF w_map \cap read_keys_of_tx = {} /\ w_map \cap write_keys_of_tx = {}
    THEN "Greater" ELSE "Less"

\* slice::binary_search_by as a loop over [left, right): Less moves left
\* past mid, Greater moves right to mid, Equal returns Ok(mid).
RECURSIVE binary_search_halving(_, _, _)
binary_search_halving(cmp, left, right) ==
    IF left >= right THEN [found |-> FALSE, idx |-> left]
    ELSE LET mid == left + ((right - left) \div 2)
         IN IF cmp[mid + 1] = "Less" THEN binary_search_halving(cmp, mid + 1, right)
            ELSE IF cmp[mid + 1] = "Greater" THEN binary_search_halving(cmp, left, mid)
            ELSE [found |-> TRUE, idx |-> mid]

\* slice::binary_search_by as a loop on (base, size): base moves to mid
\* unless the entry at mid is Greater; the entry at base decides at the end.
RECURSIVE binary_search_base(_, _, _)
binary_search_base(cmp, base, size) ==
    IF size > 1
    THEN LET half == size \div 2
             mid == base + half
         IN binary_search_base(cmp, IF cmp[mid + 1] = "Greater" THEN base ELSE mid,
                               size - half)
    ELSE IF cmp[base + 1] = "Equal" THEN [found |-> TRUE, idx |-> base]
    ELSE [found |-> FALSE, idx |-> base + (IF cmp[base + 1] = "Less" THEN 1 ELSE 0)]

\* epoch_map.binary_search_by(..): cmp[i] is the comparator on entry i.  On a
\* slice the comparator does not order, the result is unspecified: it is the
\* one of either loop of the standard library.
binary_search_by(cmp) ==
    IF cmp = <<>> THEN {[found |-> FALSE, idx |-> 0]}
    ELSE {binary_search_halving(cmp, 0, Len(cmp)), binary_search_base(cmp, 0, Len(cmp))}

\* The loop over the aborted transactions: Ok(idx) extends epoch_map[idx],
\* Err(idx) pushes the write keys at the end of epoch_map; idx is the epoch
\* of the transaction.  The result is the epochs set, one per transaction.
RECURSIVE nezha_set_epochs(_, _, _)
nezha_set_epochs(txs, epoch_map, epochs) ==
    IF txs = <<>> THEN {epochs}
    ELSE LET tx == Head(txs)
             cmp == [i \in DOMAIN epoch_map |->
                       nezha_find_minimun_epoch_with_no_conflicts(
                           tx.reads, tx.writes, epoch_map[i])]
         IN UNION {IF r.found
                   THEN nezha_set_epochs(Tail(txs),
                            [epoch_map EXCEPT ![r.idx + 1] = @ \cup tx.writes],
                            Append(epochs, r.idx))
                   ELSE nezha_set_epochs(Tail(txs),
                            Append(epoch_map, tx.writes),
                            Append(epochs, r.idx)) : r \in binary_search_by(cmp)}

\* sort_unstable_by_key(epoch) and group_by(epoch): one sub-epoch per epoch
\* value, in ascending order, here with its transactions in input order.
nezha_group_by_epoch(txs, epochs) ==
    LET values == SortedSeq(Range(epochs))
    IN [e \in DOMAIN values |->
          SelectSeq(txs, LAMBDA tx : epochs[tx.id] = values[e])]

nezha_schedule_aborted_txs(aborted_txs) ==
    {nezha_group_by_epoch(aborted_txs, epochs) :
        epochs \in nezha_set_epochs(aborted_txs, <<>>, <<>>)}

\* Every list of at most MaxNezhaAborted aborted transactions with any
\* recorded rw-sets over Keys; the id of a transaction is its position in
\* the Vec, which is the order in which the loop takes them.
InitNezha ==
    /\ f_stage = "nezha_aborted"
    /\ \E n \in 0..MaxNezhaAborted : \E f \in [1..n -> RwPairs] :
          f_in = [i \in 1..n |-> Tx(i, f[i][1], f[i][2])]
    /\ f_out = <<>>
    /\ IdleACG
    /\ consensus_output = <<>>
    /\ concurrency_level = 1
    /\ features = {}
    /\ pc = "idle"
    /\ IdlePipeline

NezhaScheduleAborted ==
    /\ f_stage = "nezha_aborted"
    /\ f_out' \in nezha_schedule_aborted_txs(f_in)
    /\ f_stage' = "nezha_packed"
    /\ UNCHANGED <<f_in, gvars, pvars>>

NextNezha == NezhaScheduleAborted

SpecNezha == InitNezha /\ [][NextNezha]_vars

\* C36 as the specification states it: in the _schedule_aborted_txs of
\* nezha_core (binary search over the per-epoch write sets) any two
\* transactions placed in the same sub-epoch are conflict-free: the
\* later-processed one neither reads nor writes a key written by the
\* earlier-processed one, and the write sets within a sub-epoch are pairwise
\* disjoint.
C36_NezhaSubEpochsConflictFree ==
    f_stage = "nezha_packed" =>
        \A e \in DOMAIN f_out : \A i, j \in DOMAIN f_out[e] :
            f_out[e][i].id < f_out[e][j].id =>
                /\ (f_out[e][j].reads \cup f_out[e][j].writes) \cap f_out[e][i].writes = {}
                /\ f_out[e][i].writes \cap f_out[e][j].writes = {}



(***************************************************************************)
(* BatchMaker (narwhal worker, batch_maker.rs): the loop of run, and seal  *)
(* with the future it returns.                                             *)
(*   f_in   the transactions the clients submit, in the order in which     *)
(*          rx_batch_maker delivers them (the bytes and their length),     *)
(*          and batch_size_limit                                           *)
(*   f_out  the locals of run (current_batch, current_responses,           *)
(*          current_batch_size, batch_pipeline), every batch given to      *)
(*          seal with the position of its future, what the quorum waiter,  *)
(*          the store and the primary have received, and what each         *)
(*          client's response channel has seen                             *)
(* The timer may fire at any time.  The response sender of the i-th        *)
(* received transaction is i.                                              *)
(***************************************************************************)
MaxReceived == 3
MaxTxLen == 2
MaxSizeLimit == 3

\* MAX_PARALLEL_BATCH is 100 in the source.
MAX_PARALLEL_BATCH == 2

\* What a client can submit: bytes that are the RLP encoding of a signed
\* transaction or not, of some length.
ClientTransactions == {[bytes |-> b, len |-> l] : b \in SerializedTransactions, l \in 1..MaxTxLen}

\* serde_json::to_vec(&rlp_decoded_tx): the JSON text of the typed
\* transaction, written -n for the n-th transaction of Encoded.  A JSON text
\* starts with the byte '{' (0x7b): as RLP it is a single-byte item, neither
\* a list nor one of the type bytes 0x01 and 0x02.
to_vec(tx) == 0 - (CHOOSE n \in DOMAIN Encoded : Encoded[n] = tx)

\* The closure given to for_each in seal: what it leaves in tx.
rewrite(tx) == to_vec(decode(tx).tx)

\* batch.digest(): a hash of the transactions of the batch.
digest(transactions) == <<"digest", transactions>>

\* current_batch_size >= self.batch_size_limit
size_exceeded(size, batch_size_limit) == size > batch_size_limit

size_reached(size, batch_size_limit) == size >= batch_size_limit

\* seal up to the hand-off to the quorum waiter: decode_signed(..).expect
\* panics on bytes that do not decode; sent is the result of
\* tx_quorum_waiter.send.
seal(timeout, batch, size, responses, sent) ==
    IF \E i \in DOMAIN batch : ~decode(batch[i]).ok
    THEN [panicked |-> TRUE]
    ELSE [panicked |-> FALSE,
          batch |-> [received |-> batch,
                     transactions |-> [i \in DOMAIN batch |-> rewrite(batch[i])],
                     size |-> size,
                     timeout |-> timeout,
                     responses |-> responses,
                     handed |-> sent,
                     stored |-> "none",
                     reported |-> "none",
                     stage |-> IF sent THEN "insert" ELSE "none"]]

\* The response senders in ids are dropped without a digest.
DroppedSenders(responses, ids) ==
    [c \in DOMAIN responses |-> IF c \in ids /\ responses[c] = <<"waiting">>
                                THEN <<"dropped">> ELSE responses[c]]

\* The response senders in ids are sent d.
Sent(responses, ids, d) ==
    [c \in DOMAIN responses |-> IF c \in ids THEN d ELSE responses[c]]

InitBatchMaker ==
    /\ f_stage = "running"
    /\ \E n \in 0..MaxReceived : \E txs \in [1..n -> ClientTransactions] :
       \E limit \in 0..MaxSizeLimit :
          /\ f_in = [transactions |-> txs, batch_size_limit |-> limit]
          /\ f_out = [received |-> 0,
                      current_batch |-> <<>>,
                      current_responses |-> <<>>,
                      current_batch_size |-> 0,
                      batch_pipeline |-> {},
                      sealed |-> <<>>,
                      closed |-> FALSE,
                      quorum_waiter |-> <<>>,
                      store |-> {},
                      primary |-> <<>>,
                      responses |-> [c \in 1..n |-> <<"unsent">>]]
    /\ IdleACG
    /\ consensus_output = <<>>
    /\ concurrency_level = 1
    /\ features = {}
    /\ pc = "idle"
    /\ IdlePipeline

\* run after seal(timeout, ..) on the locals of st: the future is pushed if
\* there is one, and the three locals are renewed.  The receiver of
\* tx_quorum_waiter may have been dropped by then (closes).
SealAndReset(st, timeout, closes) ==
    LET closed == st.closed \/ closes
        s == seal(timeout, st.current_batch, st.current_batch_size,
                  st.current_responses, ~closed)
        all == DOMAIN st.responses
    IN IF s.panicked
       THEN /\ f_stage' = "panicked"
            /\ f_out' = [st EXCEPT !.closed = closed,
                                   !.batch_pipeline = {},
                                   !.responses = DroppedSenders(@, all)]
       ELSE /\ f_stage' = "running"
            /\ f_out' = [st EXCEPT
                 !.closed = closed,
                 !.sealed = Append(@, s.batch),
                 !.batch_pipeline = IF s.batch.handed
                                    THEN @ \cup {Len(st.sealed) + 1} ELSE @,
                 !.quorum_waiter = IF s.batch.handed
                                   THEN Append(@, s.batch.transactions) ELSE @,
                 !.responses = IF s.batch.handed THEN @
                               ELSE DroppedSenders(@, Range(s.batch.responses)),
                 !.current_batch = <<>>,
                 !.current_responses = <<>>,
                 !.current_batch_size = 0]

\* The arm of select! on rx_batch_maker.recv().
Recv ==
    /\ f_stage = "running"
    /\ f_out.received < Len(f_in.transactions)
    /\ Cardinality(f_out.batch_pipeline) < MAX_PARALLEL_BATCH
    /\ LET c == f_out.received + 1
           transaction == f_in.transactions[c]
           pushed == [f_out EXCEPT
                        !.received = c,
                        !.current_batch_size = @ + transaction.len,
                        !.current_batch = Append(@, transaction.bytes),
                        !.current_responses = Append(@, c),
                        !.responses[c] = <<"waiting">>]
       IN IF size_reached(pushed.current_batch_size, f_in.batch_size_limit)
          THEN \E closes \in BOOLEAN : SealAndReset(pushed, FALSE, closes)
          ELSE f_out' = pushed /\ f_stage' = "running"
    /\ UNCHANGED <<f_in, gvars, pvars>>

\* The arm of select! on the timer.
Timer ==
    /\ f_stage = "running"
    /\ IF f_out.current_batch # <<>>
       THEN \E closes \in BOOLEAN : SealAndReset(f_out, TRUE, closes)
       ELSE UNCHANGED <<f_out, f_stage>>
    /\ UNCHANGED <<f_in, gvars, pvars>>

\* The arm of select! on rx_shutdown: run returns, and its locals are
\* dropped with the futures and the response senders they hold.
Shutdown ==
    /\ f_stage = "running"
    /\ f_stage' = "shutdown"
    /\ f_out' = [f_out EXCEPT !.batch_pipeline = {},
                              !.responses = DroppedSenders(@, DOMAIN f_out.responses)]
    /\ UNCHANGED <<f_in, gvars, pvars>>

\* The position of the future after store.insert.
after_insert(ok) == IF ok THEN "done_sending" ELSE "returned"

\* The future of a sealed batch, polled by batch_pipeline.next(), at
\* store.insert(&digest, &batch).
StoreInsert ==
    /\ f_stage = "running"
    /\ \E b \in f_out.batch_pipeline : \E ok \in BOOLEAN :
         /\ f_out.sealed[b].stage = "insert"
         /\ LET batch == f_out.sealed[b]
                stage == after_insert(ok)
            IN f_out' = [f_out EXCEPT
                 !.sealed[b].stored = IF ok THEN "ok" ELSE "err",
                 !.sealed[b].stage = stage,
                 !.store = IF ok THEN @ \cup {digest(batch.transactions)} ELSE @,
                 !.batch_pipeline = IF stage = "returned" THEN @ \ {b} ELSE @,
                 !.responses = IF stage = "returned"
                               THEN DroppedSenders(@, Range(batch.responses)) ELSE @]
    /\ UNCHANGED <<f_stage, f_in, gvars, pvars>>

\* let _ = done_sending.await: the quorum waiter has notified, or has
\* dropped notify_done; the future goes on in both cases.
DoneSending ==
    /\ f_stage = "running"
    /\ \E b \in f_out.batch_pipeline :
         /\ f_out.sealed[b].stage = "done_sending"
         /\ f_out' = [f_out EXCEPT !.sealed[b].stage = "report"]
    /\ UNCHANGED <<f_stage, f_in, gvars, pvars>>

\* The future sends the responses after a successful report.
always_respond(ok) == "respond"

\* The position of the future after client.report_own_batch.
after_report(ok) == IF ok THEN "respond" ELSE "returned"

\* client.report_own_batch(message).await and, if it succeeds, the loop
\* over responses; the future is then complete.
Report ==
    /\ f_stage = "running"
    /\ \E b \in f_out.batch_pipeline : \E ok \in BOOLEAN :
         /\ f_out.sealed[b].stage = "report"
         /\ LET batch == f_out.sealed[b]
                d == digest(batch.transactions)
                stage == after_report(ok)
            IN f_out' = [f_out EXCEPT
                 !.sealed[b].reported = IF ok THEN "ok" ELSE "err",
                 !.sealed[b].stage = IF stage = "respond" THEN "responded" ELSE stage,
                 !.primary = IF ok THEN Append(@, d) ELSE @,
                 !.batch_pipeline = @ \ {b},
                 !.responses = IF stage = "respond"
                               THEN Sent(@, Range(batch.responses), d)
                               ELSE DroppedSenders(@, Range(batch.responses))]
    /\ UNCHANGED <<f_stage, f_in, gvars, pvars>>

NextBatchMaker == Recv \/ Timer \/ Shutdown \/ StoreInsert \/ DoneSending \/ Report

SpecBatchMaker == InitBatchMaker /\ [][NextBatchMaker]_vars


\* The bytes received so far, in the order of receipt.
ReceivedBytes == [i \in 1..f_out.received |-> f_in.transactions[i].bytes]

\* The accumulated length of the transactions whose senders are responses.
LengthOf(responses) ==
    SumSeq([i \in DOMAIN responses |-> f_in.transactions[responses[i]].len])

\* The batches given to seal, as received and as response senders.
SealedReceived == Flatten([b \in DOMAIN f_out.sealed |-> f_out.sealed[b].received])
SealedResponses == Flatten([b \in DOMAIN f_out.sealed |-> f_out.sealed[b].responses])

\* C37: while BatchMaker::run is running, every received transaction is in
\* exactly one sealed batch or still in the current batch, in the order of
\* receipt within and across batches, each with its response sender; no
\* sealed batch is empty; a batch sealed on size has reached
\* batch_size_limit with its last transaction and not before, a batch
\* sealed on the timer is below the limit, and the current batch is below
\* the limit unless it is empty; the size counter is the accumulated length
\* of the current batch, so that after a seal the current batch, its
\* responses and its size are empty and 0.
C37_BatchingInOrder ==
    f_stage = "running" =>
        /\ SealedReceived \o f_out.current_batch = ReceivedBytes
        /\ SealedResponses \o f_out.current_responses = [i \in 1..f_out.received |-> i]
        /\ Len(f_out.current_batch) = Len(f_out.current_responses)
        /\ f_out.current_batch_size = LengthOf(f_out.current_responses)
        /\ f_out.current_batch # <<>> =>
              f_out.current_batch_size < f_in.batch_size_limit
        /\ \A b \in DOMAIN f_out.sealed :
              LET batch == f_out.sealed[b]
                  n == Len(batch.received)
              IN /\ n >= 1
                 /\ Len(batch.responses) = n
                 /\ Len(batch.transactions) = n
                 /\ batch.size = LengthOf(batch.responses)
                 /\ LengthOf(SubSeq(batch.responses, 1, n - 1)) < f_in.batch_size_limit
                       \/ n = 1
                 /\ IF batch.timeout
                    THEN batch.size < f_in.batch_size_limit
                    ELSE batch.size >= f_in.batch_size_limit

\* A batch has been sealed on the timer and a batch of two
\* transactions on size; the current batch is empty again.
C37_Witness ==
    /\ f_stage = "running"
    /\ f_out.current_batch = <<>>
    /\ f_out.current_batch_size = 0
    /\ \E a, b \in DOMAIN f_out.sealed :
          /\ ~f_out.sealed[a].timeout
          /\ Len(f_out.sealed[a].received) = 2
          /\ f_out.sealed[b].timeout


\* The response channel of client c has received a digest.
Acknowledged(c) == Head(f_out.responses[c]) = "digest"

\* The sealed batch b holds the transaction of client c.
Contains(b, c) ==
    \E i \in DOMAIN f_out.sealed[b].responses :
        /\ f_out.sealed[b].responses[i] = c
        /\ f_out.sealed[b].received[i] = f_in.transactions[c].bytes
        /\ f_out.sealed[b].transactions[i] = rewrite(f_in.transactions[c].bytes)

\* C38: a response channel that has received a digest belongs to a sealed
\* batch that holds the client's transaction, that the quorum waiter has
\* been handed, that the store holds and that the primary has been told
\* of, and the digest is the digest of that batch; and if the hand-off, the
\* store insert or the report of a batch has failed, none of its response
\* channels has received a digest.
C38_AcknowledgedAfterReport ==
    /\ \A c \in DOMAIN f_out.responses :
          Acknowledged(c) =>
             \E b \in DOMAIN f_out.sealed :
                LET batch == f_out.sealed[b]
                IN /\ Contains(b, c)
                   /\ batch.handed
                   /\ batch.stored = "ok"
                   /\ batch.reported = "ok"
                   /\ f_out.responses[c] = digest(batch.transactions)
                   /\ batch.transactions \in Range(f_out.quorum_waiter)
                   /\ digest(batch.transactions) \in f_out.store
                   /\ digest(batch.transactions) \in Range(f_out.primary)
    /\ \A b \in DOMAIN f_out.sealed :
          LET batch == f_out.sealed[b]
          IN (~batch.handed \/ batch.stored = "err" \/ batch.reported = "err") =>
                \A c \in Range(batch.responses) : f_out.responses[c] = <<"dropped">>

\* The two clients of one batch have received its digest, and the report
\* of another batch has failed.
C38_Witness ==
    \E a, b \in DOMAIN f_out.sealed :
        /\ Len(f_out.sealed[a].responses) = 2
        /\ \A c \in Range(f_out.sealed[a].responses) : Acknowledged(c)
        /\ f_out.sealed[b].reported = "err"


\* C39 as the specification states it: every byte string that seal leaves
\* in a sealed batch is accepted by EthereumTransaction::decode and decodes
\* to the transaction the client submitted, so that handle_consensus_output
\* decodes the whole batch without reaching the fatal path.
C39_SealedPayloadDecodes ==
    \A b \in DOMAIN f_out.sealed :
        LET batch == f_out.sealed[b]
        IN /\ decode_all(batch.transactions).ok
           /\ \A i \in DOMAIN batch.transactions :
                 /\ decode(batch.transactions[i]).ok
                 /\ decode(batch.transactions[i]).tx = decode(batch.received[i]).tx

=============================================================================
